---- MODULE Spec2Model ----
(***************************************************************************)
(* aiorabbit: the state manager (state.py) and the client built on it      *)
(* (client.py), with the callbacks of the transport protocol               *)
(* (protocol.py) that drive it.                                            *)
(*                                                                         *)
(* The specifications share the definitions of the state manager:          *)
(*   TableSpec   _set_state alone, called with every state of the client's *)
(*               table and every exception;                                *)
(*   Spec        the state manager with tasks in _wait_on_state, driven by *)
(*               calls of _set_state and _on_exception;                    *)
(*   ClientSpec  the client: connect, queue_declare and close, the         *)
(*               broker's frames, reset, reconnect and the automatic       *)
(*               channel re-open;                                          *)
(*   OpSpec      the exchange and queue operations and basic_consume on an *)
(*               open channel, answered by the broker with their reply or  *)
(*               with Channel.Close;                                       *)
(*   ConfirmSpec two coroutines publishing with publisher confirms;        *)
(*   BodySpec    publish and the frames it writes for a message body;      *)
(*   ConsumeSpec two coroutines in basic_consume;                          *)
(*   DeliverSpec a live consumer, the messages delivered to it and         *)
(*               basic_ack, basic_nack and basic_reject;                   *)
(*   ReconnectSpec  the reconnect after an AMQPError raised in a wait;     *)
(*   MessageSpec the messages the broker delivers, returns and answers     *)
(*               basic_get with, and the frames _on_frame has no branch    *)
(*               for;                                                      *)
(*   GetSpec     two coroutines in basic_get;                              *)
(*   IdleSpec    operations returning while the broker delivers;           *)
(*   SetupSpec   basic_cancel, confirm_select, the transaction operations  *)
(*               and publish, with the checks they make before writing;    *)
(*   CancelSpec  basic_cancel while the broker delivers;                   *)
(*   RepublishSpec  publish with confirms, and the reconnect;              *)
(*   ProtocolSpec  data_received and the frames it hands on;               *)
(*   ReplySpec   queue_declare and queue_purge reading their reply while   *)
(*               other frames arrive;                                      *)
(*   SequenceSpec  publish before and after confirm_select, confirmed with *)
(*               the broker's sequence numbers;                            *)
(*   ConcurrentSpec  two coroutines publishing messages of several frames; *)
(*   CloseSpec   close on an open client;                                  *)
(*   GetClosedSpec  basic_get answered with Channel.Close, under fairness  *)
(*               of the event loop and the broker.                         *)
(***************************************************************************)
EXTENDS Integers, Sequences, FiniteSets, TLC

(***************************************************************************)
(* State constants: state.py:14-15 and client.py:37-106 (hexadecimal in    *)
(* the source).                                                            *)
(***************************************************************************)
STATE_UNINITIALIZED == 0
STATE_EXCEPTION == 1
STATE_DISCONNECTED == 17
STATE_CONNECTING == 18
STATE_CONNECTED == 19
STATE_OPENED == 20
STATE_UPDATE_SECRET_SENT == 21
STATE_UPDATE_SECRETOK_RECEIVED == 22
STATE_OPENING_CHANNEL == 23
STATE_CHANNEL_OPEN_SENT == 32
STATE_CHANNEL_OPENOK_RECEIVED == 33
STATE_CHANNEL_CLOSE_RECEIVED == 34
STATE_CHANNEL_CLOSE_SENT == 35
STATE_CHANNEL_CLOSEOK_RECEIVED == 36
STATE_CHANNEL_CLOSEOK_SENT == 37
STATE_CHANNEL_FLOW_RECEIVED == 38
STATE_CHANNEL_FLOWOK_SENT == 39
STATE_CONFIRM_SELECT_SENT == 48
STATE_CONFIRM_SELECTOK_RECEIVED == 49
STATE_EXCHANGE_BIND_SENT == 64
STATE_EXCHANGE_BINDOK_RECEIVED == 65
STATE_EXCHANGE_DECLARE_SENT == 66
STATE_EXCHANGE_DECLAREOK_RECEIVED == 67
STATE_EXCHANGE_DELETE_SENT == 68
STATE_EXCHANGE_DELETEOK_RECEIVED == 69
STATE_EXCHANGE_UNBIND_SENT == 70
STATE_EXCHANGE_UNBINDOK_RECEIVED == 71
STATE_QUEUE_BIND_SENT == 80
STATE_QUEUE_BINDOK_RECEIVED == 81
STATE_QUEUE_DECLARE_SENT == 82
STATE_QUEUE_DECLAREOK_RECEIVED == 83
STATE_QUEUE_DELETE_SENT == 84
STATE_QUEUE_DELETEOK_RECEIVED == 85
STATE_QUEUE_PURGE_SENT == 86
STATE_QUEUE_PURGEOK_RECEIVED == 87
STATE_QUEUE_UNBIND_SENT == 88
STATE_QUEUE_UNBINDOK_RECEIVED == 89
STATE_TX_SELECT_SENT == 96
STATE_TX_SELECTOK_RECEIVED == 97
STATE_TX_COMMIT_SENT == 98
STATE_TX_COMMITOK_RECEIVED == 99
STATE_TX_ROLLBACK_SENT == 100
STATE_TX_ROLLBACKOK_RECEIVED == 101
STATE_BASIC_ACK_RECEIVED == 112
STATE_BASIC_ACK_SENT == 113
STATE_BASIC_CANCEL_RECEIVED == 114
STATE_BASIC_CANCEL_SENT == 115
STATE_BASIC_CANCELOK_RECEIVED == 116
STATE_BASIC_CANCELOK_SENT == 117
STATE_BASIC_CONSUME_SENT == 118
STATE_BASIC_CONSUMEOK_RECEIVED == 119
STATE_BASIC_DELIVER_RECEIVED == 120
STATE_CONTENT_HEADER_RECEIVED == 121
STATE_CONTENT_BODY_RECEIVED == 128
STATE_BASIC_GET_SENT == 129
STATE_BASIC_GETEMPTY_RECEIVED == 130
STATE_BASIC_GETOK_RECEIVED == 131
STATE_BASIC_NACK_RECEIVED == 132
STATE_BASIC_NACK_SENT == 133
STATE_BASIC_PUBLISH_SENT == 134
STATE_CONTENT_HEADER_SENT == 135
STATE_CONTENT_BODY_SENT == 136
STATE_BASIC_QOS_SENT == 137
STATE_BASIC_QOSOK_RECEIVED == 144
STATE_BASIC_RECOVER_SENT == 145
STATE_BASIC_RECOVEROK_RECEIVED == 146
STATE_BASIC_REJECT_RECEIVED == 147
STATE_BASIC_REJECT_SENT == 148
STATE_BASIC_RETURN_RECEIVED == 149
STATE_MESSAGE_ASSEMBLED == 150
STATE_CLOSING == 256
STATE_CLOSED == 257

\* client.py:183-210
_IDLE_STATE ==
    {STATE_UPDATE_SECRET_SENT, STATE_BASIC_CANCEL_SENT, 
     STATE_CHANNEL_CLOSE_RECEIVED, STATE_CHANNEL_CLOSE_SENT, 
     STATE_CHANNEL_FLOW_RECEIVED, STATE_CONFIRM_SELECT_SENT, 
     STATE_EXCHANGE_BIND_SENT, STATE_EXCHANGE_DECLARE_SENT, 
     STATE_EXCHANGE_DELETE_SENT, STATE_EXCHANGE_UNBIND_SENT, 
     STATE_QUEUE_BIND_SENT, STATE_QUEUE_DECLARE_SENT, 
     STATE_QUEUE_DELETE_SENT, STATE_QUEUE_PURGE_SENT, 
     STATE_QUEUE_UNBIND_SENT, STATE_TX_SELECT_SENT, STATE_TX_COMMIT_SENT, 
     STATE_TX_ROLLBACK_SENT, STATE_BASIC_CONSUME_SENT, 
     STATE_BASIC_DELIVER_RECEIVED, STATE_BASIC_GET_SENT, 
     STATE_BASIC_PUBLISH_SENT, STATE_BASIC_QOS_SENT, 
     STATE_BASIC_RECOVER_SENT, STATE_CLOSING, STATE_CLOSED}

\* the keys of _STATE_MAP, client.py:108-181
_STATE_MAP ==
    {STATE_UNINITIALIZED, STATE_EXCEPTION, STATE_DISCONNECTED, 
     STATE_CONNECTING, STATE_CONNECTED, STATE_OPENED, 
     STATE_UPDATE_SECRET_SENT, STATE_UPDATE_SECRETOK_RECEIVED, 
     STATE_OPENING_CHANNEL, STATE_CHANNEL_OPEN_SENT, 
     STATE_CHANNEL_OPENOK_RECEIVED, STATE_CHANNEL_CLOSE_RECEIVED, 
     STATE_CHANNEL_CLOSE_SENT, STATE_CHANNEL_CLOSEOK_RECEIVED, 
     STATE_CHANNEL_CLOSEOK_SENT, STATE_CHANNEL_FLOW_RECEIVED, 
     STATE_CHANNEL_FLOWOK_SENT, STATE_CONFIRM_SELECT_SENT, 
     STATE_CONFIRM_SELECTOK_RECEIVED, STATE_EXCHANGE_BIND_SENT, 
     STATE_EXCHANGE_BINDOK_RECEIVED, STATE_EXCHANGE_DECLARE_SENT, 
     STATE_EXCHANGE_DECLAREOK_RECEIVED, STATE_EXCHANGE_DELETE_SENT, 
     STATE_EXCHANGE_DELETEOK_RECEIVED, STATE_EXCHANGE_UNBIND_SENT, 
     STATE_EXCHANGE_UNBINDOK_RECEIVED, STATE_QUEUE_BIND_SENT, 
     STATE_QUEUE_BINDOK_RECEIVED, STATE_QUEUE_DECLARE_SENT, 
     STATE_QUEUE_DECLAREOK_RECEIVED, STATE_QUEUE_DELETE_SENT, 
     STATE_QUEUE_DELETEOK_RECEIVED, STATE_QUEUE_PURGE_SENT, 
     STATE_QUEUE_PURGEOK_RECEIVED, STATE_QUEUE_UNBIND_SENT, 
     STATE_QUEUE_UNBINDOK_RECEIVED, STATE_TX_SELECT_SENT, 
     STATE_TX_SELECTOK_RECEIVED, STATE_TX_COMMIT_SENT, 
     STATE_TX_COMMITOK_RECEIVED, STATE_TX_ROLLBACK_SENT, 
     STATE_TX_ROLLBACKOK_RECEIVED, STATE_BASIC_ACK_RECEIVED, 
     STATE_BASIC_ACK_SENT, STATE_BASIC_CANCEL_RECEIVED, 
     STATE_BASIC_CANCEL_SENT, STATE_BASIC_CANCELOK_RECEIVED, 
     STATE_BASIC_CANCELOK_SENT, STATE_BASIC_CONSUME_SENT, 
     STATE_BASIC_CONSUMEOK_RECEIVED, STATE_BASIC_DELIVER_RECEIVED, 
     STATE_CONTENT_HEADER_RECEIVED, STATE_CONTENT_BODY_RECEIVED, 
     STATE_BASIC_GET_SENT, STATE_BASIC_GETEMPTY_RECEIVED, 
     STATE_BASIC_GETOK_RECEIVED, STATE_BASIC_NACK_RECEIVED, 
     STATE_BASIC_NACK_SENT, STATE_BASIC_PUBLISH_SENT, 
     STATE_CONTENT_HEADER_SENT, STATE_CONTENT_BODY_SENT, 
     STATE_BASIC_QOS_SENT, STATE_BASIC_QOSOK_RECEIVED, 
     STATE_BASIC_RECOVER_SENT, STATE_BASIC_RECOVEROK_RECEIVED, 
     STATE_BASIC_REJECT_RECEIVED, STATE_BASIC_REJECT_SENT, 
     STATE_BASIC_RETURN_RECEIVED, STATE_MESSAGE_ASSEMBLED, STATE_CLOSING, 
     STATE_CLOSED}

\* client.py:212-323
_STATE_TRANSITIONS ==
    STATE_UNINITIALIZED :> {STATE_DISCONNECTED} @@
    STATE_EXCEPTION :> {STATE_CLOSING, STATE_CLOSED, STATE_DISCONNECTED} @@
    STATE_DISCONNECTED :> {STATE_CONNECTING} @@
    STATE_CONNECTING :> {STATE_CONNECTED, STATE_CLOSED} @@
    STATE_CONNECTED :> {STATE_OPENED, STATE_CLOSED} @@
    STATE_OPENED :> {STATE_OPENING_CHANNEL} @@
    STATE_OPENING_CHANNEL :> {STATE_CHANNEL_OPEN_SENT} @@
    STATE_UPDATE_SECRET_SENT :> {STATE_UPDATE_SECRETOK_RECEIVED} @@
    STATE_UPDATE_SECRETOK_RECEIVED :> _IDLE_STATE @@
    STATE_CHANNEL_OPEN_SENT :> {STATE_CHANNEL_OPENOK_RECEIVED} @@
    STATE_CHANNEL_OPENOK_RECEIVED :> _IDLE_STATE @@
    STATE_CHANNEL_CLOSE_RECEIVED :> {STATE_CHANNEL_CLOSEOK_SENT} @@
    STATE_CHANNEL_CLOSE_SENT :> {STATE_CHANNEL_CLOSEOK_RECEIVED} @@
    STATE_CHANNEL_CLOSEOK_RECEIVED :> {STATE_OPENING_CHANNEL, STATE_CLOSING} @@
    STATE_CHANNEL_CLOSEOK_SENT :> {STATE_OPENING_CHANNEL} @@
    STATE_CHANNEL_FLOW_RECEIVED :> {STATE_CHANNEL_FLOWOK_SENT} @@
    STATE_CHANNEL_FLOWOK_SENT :> _IDLE_STATE @@
    STATE_CONFIRM_SELECT_SENT :> {STATE_CONFIRM_SELECTOK_RECEIVED} @@
    STATE_CONFIRM_SELECTOK_RECEIVED :> _IDLE_STATE @@
    STATE_EXCHANGE_BIND_SENT :> {STATE_CHANNEL_CLOSE_RECEIVED, STATE_EXCHANGE_BINDOK_RECEIVED} @@
    STATE_EXCHANGE_BINDOK_RECEIVED :> _IDLE_STATE @@
    STATE_EXCHANGE_DECLARE_SENT :> {STATE_CHANNEL_CLOSE_RECEIVED, STATE_EXCHANGE_DECLAREOK_RECEIVED} @@
    STATE_EXCHANGE_DECLAREOK_RECEIVED :> _IDLE_STATE @@
    STATE_EXCHANGE_DELETE_SENT :> {STATE_CHANNEL_CLOSE_RECEIVED, STATE_EXCHANGE_DELETEOK_RECEIVED} @@
    STATE_EXCHANGE_DELETEOK_RECEIVED :> _IDLE_STATE @@
    STATE_EXCHANGE_UNBIND_SENT :> {STATE_CHANNEL_CLOSE_RECEIVED, STATE_EXCHANGE_UNBINDOK_RECEIVED} @@
    STATE_EXCHANGE_UNBINDOK_RECEIVED :> _IDLE_STATE @@
    STATE_QUEUE_BIND_SENT :> {STATE_CHANNEL_CLOSE_RECEIVED, STATE_QUEUE_BINDOK_RECEIVED} @@
    STATE_QUEUE_BINDOK_RECEIVED :> _IDLE_STATE @@
    STATE_QUEUE_DECLARE_SENT :> {STATE_CHANNEL_CLOSE_RECEIVED, STATE_QUEUE_DECLAREOK_RECEIVED} @@
    STATE_QUEUE_DECLAREOK_RECEIVED :> _IDLE_STATE @@
    STATE_QUEUE_DELETE_SENT :> {STATE_CHANNEL_CLOSE_RECEIVED, STATE_QUEUE_DELETEOK_RECEIVED} @@
    STATE_QUEUE_DELETEOK_RECEIVED :> _IDLE_STATE @@
    STATE_QUEUE_PURGE_SENT :> {STATE_CHANNEL_CLOSE_RECEIVED, STATE_QUEUE_PURGEOK_RECEIVED} @@
    STATE_QUEUE_PURGEOK_RECEIVED :> _IDLE_STATE @@
    STATE_QUEUE_UNBIND_SENT :> {STATE_CHANNEL_CLOSE_RECEIVED, STATE_QUEUE_UNBINDOK_RECEIVED} @@
    STATE_QUEUE_UNBINDOK_RECEIVED :> _IDLE_STATE @@
    STATE_TX_SELECT_SENT :> {STATE_TX_SELECTOK_RECEIVED} @@
    STATE_TX_SELECTOK_RECEIVED :> _IDLE_STATE \cup {STATE_TX_COMMIT_SENT, STATE_TX_ROLLBACK_SENT} @@
    STATE_TX_COMMIT_SENT :> {STATE_TX_COMMITOK_RECEIVED} @@
    STATE_TX_COMMITOK_RECEIVED :> _IDLE_STATE @@
    STATE_TX_ROLLBACK_SENT :> {STATE_TX_ROLLBACKOK_RECEIVED} @@
    STATE_TX_ROLLBACKOK_RECEIVED :> _IDLE_STATE @@
    STATE_BASIC_ACK_RECEIVED :> _IDLE_STATE @@
    STATE_BASIC_ACK_SENT :> _IDLE_STATE @@
    STATE_BASIC_CANCEL_RECEIVED :> _IDLE_STATE @@
    STATE_BASIC_CANCEL_SENT :> {STATE_BASIC_CANCELOK_RECEIVED} @@
    STATE_BASIC_CANCELOK_RECEIVED :> _IDLE_STATE @@
    STATE_BASIC_CANCELOK_SENT :> _IDLE_STATE @@
    STATE_BASIC_CONSUME_SENT :> {STATE_CHANNEL_CLOSE_RECEIVED, STATE_BASIC_CONSUMEOK_RECEIVED} @@
    STATE_BASIC_CONSUMEOK_RECEIVED :> _IDLE_STATE @@
    STATE_BASIC_DELIVER_RECEIVED :> {STATE_CONTENT_HEADER_RECEIVED} @@
    STATE_CONTENT_HEADER_RECEIVED :> {STATE_CONTENT_BODY_RECEIVED} @@
    STATE_CONTENT_BODY_RECEIVED :> {STATE_MESSAGE_ASSEMBLED} @@
    STATE_BASIC_GET_SENT :> {STATE_CHANNEL_CLOSE_RECEIVED, STATE_BASIC_GETEMPTY_RECEIVED, 
            STATE_BASIC_GETOK_RECEIVED} @@
    STATE_BASIC_GETEMPTY_RECEIVED :> _IDLE_STATE @@
    STATE_BASIC_GETOK_RECEIVED :> {STATE_CONTENT_HEADER_RECEIVED} @@
    STATE_BASIC_NACK_RECEIVED :> _IDLE_STATE @@
    STATE_BASIC_NACK_SENT :> _IDLE_STATE @@
    STATE_BASIC_PUBLISH_SENT :> {STATE_CONTENT_HEADER_SENT} @@
    STATE_CONTENT_HEADER_SENT :> {STATE_CONTENT_BODY_SENT} @@
    STATE_CONTENT_BODY_SENT :> _IDLE_STATE \cup {STATE_BASIC_ACK_RECEIVED, STATE_BASIC_NACK_RECEIVED, 
            STATE_BASIC_REJECT_RECEIVED, STATE_BASIC_RETURN_RECEIVED} @@
    STATE_BASIC_QOS_SENT :> {STATE_CHANNEL_CLOSE_RECEIVED, STATE_BASIC_QOSOK_RECEIVED} @@
    STATE_BASIC_QOSOK_RECEIVED :> _IDLE_STATE @@
    STATE_BASIC_RECOVER_SENT :> {STATE_BASIC_RECOVEROK_RECEIVED} @@
    STATE_BASIC_RECOVEROK_RECEIVED :> _IDLE_STATE @@
    STATE_BASIC_REJECT_RECEIVED :> _IDLE_STATE @@
    STATE_BASIC_REJECT_SENT :> _IDLE_STATE @@
    STATE_BASIC_RETURN_RECEIVED :> {STATE_CONTENT_HEADER_RECEIVED} @@
    STATE_MESSAGE_ASSEMBLED :> _IDLE_STATE \cup {STATE_BASIC_ACK_RECEIVED, STATE_BASIC_ACK_SENT, 
            STATE_BASIC_NACK_SENT, STATE_BASIC_NACK_RECEIVED, 
            STATE_BASIC_REJECT_SENT, STATE_BASIC_REJECT_RECEIVED} @@
    STATE_CLOSING :> {STATE_CLOSED} @@
    STATE_CLOSED :> {STATE_CONNECTING}


(***************************************************************************)
(* Bounds and input sets.                                                  *)
(***************************************************************************)
\* the tasks that call _wait_on_state concurrently
Tasks == {"t1", "t2", "t3"}

\* "no exception" (Python None) and the exception objects handed to
\* _set_state: one that Client._wait_on_state catches (pamqp AMQPError,
\* client.py:1537) and one that it lets through.
None == "None"
Errors == {"AMQPError", "RuntimeError"}

\* argument lists of _wait_on_state, as the client's coroutines use them:
\* _open_channel (client.py:1463) and queue_declare (client.py:1068-1069)
WaitArgs ==
    [t1 |-> { <<STATE_CHANNEL_OPENOK_RECEIVED>>,
              <<STATE_QUEUE_DECLAREOK_RECEIVED, STATE_CHANNEL_CLOSE_RECEIVED>> },
     t2 |-> { <<STATE_CHANNEL_OPENOK_RECEIVED>> },
     t3 |-> { }]

\* the coroutines of the client: the caller's, the _open_channel task
\* that _on_channel_closed schedules (client.py:1449), and a second caller
\* with an operation in flight at the same time
User == "t1"
Reopen == "t2"
Second == "t3"

VARIABLES
    _state,       \* StateManager._state
    _exception,   \* StateManager._exception
    _waits,       \* StateManager._waits: entries <<state, wait_id, event>>
    is_set,       \* the asyncio.Event objects that are set
    ready,        \* loop.call_soon queue: batches of event.set callbacks
    clock,        \* the last value time.monotonic_ns() returned
    w_stat,       \* per task: "none" | "waiting" | "returned" | "raised"
    wait_id,      \* per task: the local wait_id of _wait_on_state
    waits,        \* per task: the local list of awaited states
    result,       \* per task: the state returned, or the exception raised
    raised,       \* whether the last call of _set_state raised
                  \* StateTransitionError
    entered,      \* per task: the awaited states (and STATE_EXCEPTION)
                  \* entered since it registered, in order
    pc,           \* per coroutine of the client: where it is suspended
    re,           \* per coroutine: the exception _wait_on_state re-raises
                  \* once its _reconnect is through (client.py:1540-1541)
    _transport,   \* Client._transport is not None
    _channel0,    \* Client._channel0 is not None
    _channel_open,\* Client._channel_open.is_set()
    mid,          \* the states the last step passed through before the
                  \* one it ended in
    _last_frame,  \* Client._last_frame
    _acks,        \* Client._acks: delivery tags of the Basic.Ack frames
    _nacks,       \* Client._nacks
    _delivery_tag,\* Client._delivery_tag
    _publisher_confirms,  \* Client._publisher_confirms
    _pending_consumers,   \* Client._pending_consumers: (future, callback)
    _consumers,   \* Client._consumers: consumer tag -> callback
    _message,     \* Client._message: the message being assembled
    _max_frame_size,      \* Client._max_frame_size
    op,           \* per coroutine: the operation of the client it runs
    delivery_tag, \* per coroutine: the local delivery_tag of publish
    err_frame,    \* per coroutine: the local err_frame of its operation
    consumer_tag_future,  \* per coroutine: the result of the local
                  \* consumer_tag_future of basic_consume
    message_body, \* the message_body the last publish was called with
    outcome,      \* per coroutine: what its last operation returned or
                  \* raised
    wire,         \* the requests written to the transport the broker has
                  \* not answered yet, with the coroutine that wrote each
    written,      \* the frames the last step wrote to the transport
    answer,       \* per coroutine: the frame that answered its request
    inbound,      \* the frames of a message the broker is sending that
                  \* have not reached _on_frame yet
    executed,     \* the calls of _execute_callback so far: the callback
                  \* and the message it was given
    _transactional,       \* Client._transactional
    _on_message_return,   \* Client._on_message_return: the coroutine that
                  \* registered a callback, or None
    response,     \* per coroutine: the local future response of basic_get
    publisher_confirms,   \* per coroutine: the local publisher_confirms
                  \* of _reconnect
    consumer_tag,         \* per coroutine: the argument of basic_cancel
    buffer,       \* AMQP.buffer (protocol.py:19): the bytes received and
                  \* not unmarshalled yet
    dispatched,   \* the frames AMQP.data_received has called
                  \* on_frame_received with, in order
    sequence      \* the broker's count of the messages it has confirmed
                  \* on the channel since Confirm.Select

sm_vars == <<_state, _exception, _waits, is_set, ready, clock,
             w_stat, wait_id, waits, result, raised, entered>>
client_vars == <<pc, re, _transport, _channel0, _channel_open, mid>>
chan_fields == <<_last_frame, _acks, _nacks, _delivery_tag,
                 _publisher_confirms, _pending_consumers, _consumers,
                 _message, _max_frame_size>>
chan_locals == <<op, delivery_tag, err_frame, consumer_tag_future,
                 message_body, outcome>>
chan_wire == <<wire, written, answer, inbound, executed>>
protocol_vars == <<buffer, dispatched>>
chan_more == <<_transactional, _on_message_return, response,
               publisher_confirms, consumer_tag, protocol_vars, sequence>>
chan_vars == <<chan_fields, chan_locals, chan_wire, chan_more>>
vars == <<sm_vars, client_vars, chan_vars>>

(***************************************************************************)
(* StateManager._set_state, state.py:76-98: the state, the stored          *)
(* exception and whether StateTransitionError is raised.                   *)
(***************************************************************************)
_set_state_unchecked(st, ex, value, exc) ==
    IF value = STATE_EXCEPTION \/ exc # None
    THEN [state |-> STATE_EXCEPTION, exception |-> exc, raised |-> FALSE]
    ELSE [state |-> value, exception |-> ex, raised |-> FALSE]
_set_state_exc_checked(st, ex, value, exc) ==
    IF value # st /\ value \notin _STATE_TRANSITIONS[st]
    THEN [state |-> st, exception |-> ex, raised |-> TRUE]
    ELSE IF value = STATE_EXCEPTION \/ exc # None
    THEN [state |-> STATE_EXCEPTION, exception |-> exc, raised |-> FALSE]
    ELSE [state |-> value, exception |-> ex, raised |-> FALSE]
_set_state(st, ex, value, exc) ==
    IF value = STATE_EXCEPTION \/ exc # None
    THEN [state |-> STATE_EXCEPTION, exception |-> exc, raised |-> FALSE]
    ELSE IF value = st
    THEN [state |-> st, exception |-> ex, raised |-> FALSE]
    ELSE IF value \notin _STATE_TRANSITIONS[st]
    THEN [state |-> st, exception |-> ex, raised |-> TRUE]
    ELSE [state |-> value, exception |-> ex, raised |-> FALSE]

\* An asyncio.Event is named by the task that created it and its position
\* in that task's argument list.
Event(t, i) == <<t, i>>
Pending(rdy) == UNION {rdy[i] : i \in 1..Len(rdy)}

\* loop.call_soon(event.set) for each of evs: one batch, run together.
\* A callback for an event that is set, or that an earlier batch sets, or
\* that no task waits on any more, changes nothing and is left out.
call_soon(rdy, set, stat, evs) ==
    LET new == {e \in evs : /\ stat[e[1]] = "waiting"
                            /\ e \notin set
                            /\ e \notin Pending(rdy)}
    IN  IF new = {} THEN rdy ELSE Append(rdy, new)

\* state.py:99-101: wake every event registered on the state just set
_wake(rdy, set, stat, w, st) ==
    call_soon(rdy, set, stat, {e[3] : e \in {x \in w : x[1] = st}})

\* StateManager._clear_waits, state.py:65-68
_clear_waits(w, id) == {e \in w : e[2] # id}

\* time.monotonic_ns(), state.py:105: a value not below the last one, and
\* equal to it when the clock has not advanced.  Wait ids are only compared
\* for equality, so clock keeps the last value only while a key of _waits
\* or a suspended waiter carries it (0 otherwise), and a later value is
\* named by the least number nothing carries.
Carried(w, stat, ids) ==
    {e[2] : e \in w} \cup {ids[t] : t \in {u \in Tasks : stat[u] = "waiting"}}
Later ==
    LET used == Carried(_waits, w_stat, wait_id)
    IN  CHOOSE n \in 1..(Cardinality(used) + 1) : n \notin used
monotonic_ns == IF clock = 0 THEN {Later} ELSE {clock, Later}
Kept(clk, w, stat, ids) ==
    IF clk \in Carried(w, stat, ids) THEN clk ELSE 0

\* state.py:106-110: self._waits[state][wait_id] = asyncio.Event() for each
\* argument in turn; what the task's finished earlier wait left behind is
\* garbage no later call can reach and is dropped here.
Last(args, i) == CHOOSE j \in i..Len(args) :
                    /\ args[j] = args[i]
                    /\ \A k \in (j+1)..Len(args) : args[k] # args[i]
register(w, t, id, args) ==
    LET keys == {<<args[i], id>> : i \in 1..Len(args)}
        kept == {e \in w : e[3][1] # t /\ <<e[1], e[2]>> \notin keys}
    IN  kept \cup {<<args[i], id, Event(t, Last(args, i))>> : i \in 1..Len(args)}

\* state.py:109: asyncio.Event() is created unset, whatever the state is
initially_set_if_current(t, args, st) ==
    {Event(t, i) : i \in {j \in 1..Len(args) : args[j] = st}}
initially_set(t, args, st) == {}

\* the events of task t, removed when its wait ends
Without(set, t) == {e \in set : e[1] # t}
Purge(rdy, t) ==
    LET F[i \in 0..Len(rdy)] ==
            IF i = 0 THEN <<>>
            ELSE IF Without(rdy[i], t) = {} THEN F[i-1]
            ELSE Append(F[i-1], Without(rdy[i], t))
    IN  F[Len(rdy)]

\* state.py:116-117: the first awaited state whose event is set, 0 if none
last_set(t, args, set) ==
    IF \E i \in 1..Len(args) : Event(t, i) \in set
    THEN CHOOSE i \in 1..Len(args) :
            /\ Event(t, i) \in set
            /\ \A j \in (i+1)..Len(args) : Event(t, j) \notin set
    ELSE 0
first_set(t, args, set) ==
    IF \E i \in 1..Len(args) : Event(t, i) \in set
    THEN CHOOSE i \in 1..Len(args) :
            /\ Event(t, i) \in set
            /\ \A j \in 1..(i-1) : Event(t, j) \notin set
    ELSE 0


\* StateManager.__init__, state.py:29-38, with no task waiting
StateManagerInit ==
    /\ _exception = None
    /\ _waits = {}
    /\ is_set = {}
    /\ ready = <<>>
    /\ clock = 0
    /\ w_stat = [t \in Tasks |-> "none"]
    /\ wait_id = [t \in Tasks |-> 0]
    /\ waits = [t \in Tasks |-> <<>>]
    /\ result = [t \in Tasks |-> None]
    /\ raised = FALSE
    /\ entered = [t \in Tasks |-> <<>>]

\* Client.__init__, client.py:352-380, and no coroutine running
ClientIdle ==
    /\ pc = [t \in Tasks |-> "idle"]
    /\ re = [t \in Tasks |-> None]
    /\ _transport = FALSE
    /\ _channel0 = FALSE
    /\ _channel_open = FALSE
    /\ mid = <<>>

\* A frame, with the fields the client reads: commands.Channel.Close has
\* reply_code, Basic.Ack and Basic.Nack have delivery_tag and multiple,
\* Basic.ConsumeOk and Basic.Deliver have consumer_tag,
\* header.ContentHeader has body_size, body.ContentBody has the bytes; the
\* fields a frame class does not have are left at their zero here and
\* never read (see reply_code_of).
Method(name) ==
    [name |-> name, reply_code |-> 0, delivery_tag |-> 0,
     multiple |-> FALSE, consumer_tag |-> "", body_size |-> 0,
     body |-> <<>>]
NoFrame == Method("None")

\* an asyncio.Future without a result
Future == [done |-> FALSE, result |-> NoFrame]

\* Client.__init__, client.py:358-380: the fields of the channel
FieldsIdle ==
    /\ _last_frame = NoFrame
    /\ _acks = {}
    /\ _nacks = {}
    /\ _delivery_tag = 0
    /\ _publisher_confirms = FALSE
    /\ _pending_consumers = <<>>
    /\ _consumers = {}
    /\ _message = NoFrame
    /\ _max_frame_size = 0
    /\ _transactional = FALSE
    /\ _on_message_return = None

\* no operation called yet, nothing written
NoOperation ==
    /\ op = [t \in Tasks |-> "None"]
    /\ delivery_tag = [t \in Tasks |-> 0]
    /\ err_frame = [t \in Tasks |-> NoFrame]
    /\ consumer_tag_future = [t \in Tasks |-> ""]
    /\ message_body = <<>>
    /\ outcome = [t \in Tasks |-> None]
    /\ wire = <<>>
    /\ written = <<>>
    /\ answer = [t \in Tasks |-> NoFrame]
    /\ inbound = <<>>
    /\ executed = <<>>
    /\ response = [t \in Tasks |-> Future]
    /\ publisher_confirms = [t \in Tasks |-> FALSE]
    /\ consumer_tag = [t \in Tasks |-> ""]
    /\ buffer = <<>>
    /\ dispatched = <<>>
    /\ sequence = 0

ChannelIdle == FieldsIdle /\ NoOperation

SMInit ==
    /\ _state = STATE_UNINITIALIZED
    /\ StateManagerInit
    /\ ClientIdle
    /\ ChannelIdle

Awaited(t) == {waits[t][i] : i \in 1..Len(waits[t])}
InSeq(s, x) == \E i \in 1..Len(s) : s[i] = x

\* entered: the awaited states, and STATE_EXCEPTION, in the order
\* _set_state first completed in them after the task registered
Noted(ent, stat, wts, st) ==
    [t \in Tasks |->
        IF /\ stat[t] = "waiting"
           /\ InSeq(wts[t], st) \/ st = STATE_EXCEPTION
           /\ ~InSeq(ent[t], st)
        THEN Append(ent[t], st) ELSE ent[t]]

(***************************************************************************)
(* A call of _set_state(value, exc), state.py:76-101.                      *)
(***************************************************************************)
\* A handler is a sequence of calls; s carries what they have made of the
\* state so far: s.error is the exception that ended the handler (None
\* while it runs), s.hops the states assigned, in order.
Cur ==
    [state |-> _state, exception |-> _exception, error |-> None,
     ready |-> ready, entered |-> entered, hops |-> <<>>]
Then(s, value, exc) ==
    IF s.error # None THEN s
    ELSE LET r == _set_state(s.state, s.exception, value, exc)
         IN  IF r.raised
             THEN [s EXCEPT !.error = "StateTransitionError"]
             ELSE [state |-> r.state, exception |-> r.exception,
                   error |-> None,
                   ready |-> _wake(s.ready, is_set, w_stat, _waits, r.state),
                   entered |-> Noted(s.entered, w_stat, waits, r.state),
                   hops |-> Append(s.hops, r.state)]
Commit(s) ==
    /\ _state' = s.state
    /\ _exception' = s.exception
    /\ raised' = (s.error = "StateTransitionError")
    /\ ready' = s.ready
    /\ entered' = s.entered

SetState(value, exc) ==
    /\ Commit(Then(Cur, value, exc))
    /\ UNCHANGED <<_waits, is_set, clock, w_stat, wait_id, waits, result>>

\* StateManager._on_exception, state.py:70-74: the loop's exception handler
OnException(exc) ==
    SetState(STATE_EXCEPTION, exc)

\* the loop runs the first batch of event.set callbacks
RunCallbacks ==
    /\ ready # <<>>
    /\ is_set' = is_set \cup Head(ready)
    /\ ready' = Tail(ready)
    /\ UNCHANGED <<_state, _exception, _waits, clock, w_stat, wait_id,
                   waits, result, raised, entered>>

\* state.py:124-126: the stored exception is taken and raised
Raise(t) ==
    /\ w_stat' = [w_stat EXCEPT ![t] = "raised"]
    /\ result' = [result EXCEPT ![t] = _exception]
    /\ _exception' = None
    /\ is_set' = Without(is_set, t)
    /\ ready' = Purge(ready, t)
    /\ wait_id' = [wait_id EXCEPT ![t] = 0]
    /\ entered' = [entered EXCEPT ![t] = <<>>]

\* state.py:103-115 and the first pass of the loop: _wait_on_state(*args)
\* registers and, unless an exception is stored, suspends in sleep()
Register(t, args) ==
    /\ w_stat[t] # "waiting"
    /\ \E id \in monotonic_ns :
        /\ _waits' = register(_waits, t, id, args)
        /\ clock' = id
        /\ IF _exception # None
           THEN Raise(t)
           ELSE /\ w_stat' = [w_stat EXCEPT ![t] = "waiting"]
                /\ result' = [result EXCEPT ![t] = None]
                /\ wait_id' = [wait_id EXCEPT ![t] = id]
                /\ entered' = [entered EXCEPT ![t] = <<>>]
                /\ is_set' = is_set \cup initially_set(t, args, _state)
                /\ UNCHANGED <<_exception, ready>>
    /\ waits' = [waits EXCEPT ![t] = args]
    /\ UNCHANGED <<_state, raised>>

\* state.py:115-126: the task resumes from sleep(); it raises the stored
\* exception, or returns the first awaited state whose event is set, or
\* sleeps again (no change: not a step)
Poll(t) ==
    /\ w_stat[t] = "waiting"
    /\ IF _exception # None
       THEN /\ Raise(t)
            /\ UNCHANGED <<_waits, clock>>
       ELSE LET i == first_set(t, waits[t], is_set)
            IN  /\ i # 0
                /\ _waits' = _clear_waits(_waits, wait_id[t])
                /\ w_stat' = [w_stat EXCEPT ![t] = "returned"]
                /\ result' = [result EXCEPT ![t] = waits[t][i]]
                /\ wait_id' = [wait_id EXCEPT ![t] = 0]
                /\ clock' = Kept(clock, _waits', w_stat', wait_id')
                /\ is_set' = Without(is_set, t)
                /\ ready' = Purge(ready, t)
                /\ UNCHANGED <<_exception, entered>>
    /\ UNCHANGED <<_state, waits, raised>>

\* the states the calls of _set_state are drawn from while tasks wait: the
\* way to an open channel, a request with its reply, the channel close and
\* the way out of STATE_EXCEPTION; and the exception handed in
SetInputs ==
    {STATE_EXCEPTION, STATE_DISCONNECTED, STATE_CONNECTING, STATE_CONNECTED,
     STATE_OPENED, STATE_OPENING_CHANNEL, STATE_CHANNEL_OPEN_SENT,
     STATE_CHANNEL_OPENOK_RECEIVED, STATE_QUEUE_DECLARE_SENT,
     STATE_QUEUE_DECLAREOK_RECEIVED, STATE_CHANNEL_CLOSE_RECEIVED,
     STATE_CHANNEL_CLOSEOK_SENT, STATE_CLOSED}
ExcInputs == {None, "AMQPError"}

\* The state manager with waiting tasks.  A call of _set_state that raises
\* StateTransitionError changes nothing a waiter reads and is left out.
SMNext ==
    \/ \E value \in SetInputs, exc \in ExcInputs :
            SetState(value, exc) /\ raised' = FALSE /\ UNCHANGED <<client_vars, chan_vars>>
    \/ \E exc \in ExcInputs : OnException(exc) /\ UNCHANGED <<client_vars, chan_vars>>
    \/ RunCallbacks /\ UNCHANGED <<client_vars, chan_vars>>
    \/ \E t \in Tasks : \E args \in WaitArgs[t] :
            Register(t, args) /\ UNCHANGED <<client_vars, chan_vars>>
    \/ \E t \in Tasks : Poll(t) /\ UNCHANGED <<client_vars, chan_vars>>

Spec == SMInit /\ [][SMNext]_vars

\* _set_state alone, called with every state and every exception
TableNext ==
    \/ \E value \in _STATE_MAP, exc \in {None} \cup Errors :
            SetState(value, exc) /\ UNCHANGED <<client_vars, chan_vars>>
    \/ \E exc \in {None} \cup Errors :
            OnException(exc) /\ UNCHANGED <<client_vars, chan_vars>>

TableSpec == SMInit /\ [][TableNext]_vars

(***************************************************************************)
(* The client, client.py.  Its coroutines run from one suspension point to *)
(* the next in one step.  _wait_on_state is the state manager's Register   *)
(* and Poll; what the coroutine does before it (await) and after it        *)
(* (resume) belongs to the same uninterrupted run, so nothing else is      *)
(* scheduled in between (Busy).                                            *)
(***************************************************************************)

\* pc of a coroutine suspended in _wait_on_state, and the states awaited:
\* _open_channel (client.py:1463), queue_declare (client.py:1068-1069, and
\* 1072 after Channel.Close), close (client.py:401); and the other
\* operations on the channel: exchange_bind (client.py:700-702),
\* exchange_declare (755-757), exchange_delete (783), exchange_unbind
\* (813), queue_bind (1011-1012), queue_delete (1101), queue_purge
\* (1117-1118), queue_unbind (1158), basic_consume (510-511), publish
\* (951-954), basic_cancel (449), confirm_select (668), tx_select (1182),
\* tx_commit (1196), tx_rollback (1213)
Awaiting ==
    [open    |-> <<STATE_CHANNEL_OPENOK_RECEIVED>>,
     declare |-> <<STATE_QUEUE_DECLAREOK_RECEIVED,
                   STATE_CHANNEL_CLOSE_RECEIVED>>,
     reopen  |-> <<STATE_CHANNEL_OPENOK_RECEIVED>>,
     close   |-> <<STATE_CHANNEL_CLOSEOK_RECEIVED>>,
     exchange_bind    |-> <<STATE_CHANNEL_CLOSE_RECEIVED,
                            STATE_EXCHANGE_BINDOK_RECEIVED>>,
     exchange_declare |-> <<STATE_CHANNEL_CLOSE_RECEIVED,
                            STATE_EXCHANGE_DECLAREOK_RECEIVED>>,
     exchange_delete  |-> <<STATE_EXCHANGE_DELETEOK_RECEIVED>>,
     exchange_unbind  |-> <<STATE_EXCHANGE_UNBINDOK_RECEIVED>>,
     queue_bind       |-> <<STATE_QUEUE_BINDOK_RECEIVED,
                            STATE_CHANNEL_CLOSE_RECEIVED>>,
     queue_delete     |-> <<STATE_QUEUE_DELETEOK_RECEIVED>>,
     queue_purge      |-> <<STATE_QUEUE_PURGEOK_RECEIVED,
                            STATE_CHANNEL_CLOSE_RECEIVED>>,
     queue_unbind     |-> <<STATE_QUEUE_UNBINDOK_RECEIVED>>,
     basic_consume    |-> <<STATE_BASIC_CONSUMEOK_RECEIVED,
                            STATE_CHANNEL_CLOSE_RECEIVED>>,
     publish          |-> <<STATE_BASIC_ACK_RECEIVED,
                            STATE_BASIC_NACK_RECEIVED,
                            STATE_CHANNEL_CLOSE_RECEIVED>>,
     basic_cancel     |-> <<STATE_BASIC_CANCELOK_RECEIVED>>,
     confirm_select   |-> <<STATE_CONFIRM_SELECTOK_RECEIVED>>,
     tx_select        |-> <<STATE_TX_SELECTOK_RECEIVED>>,
     tx_commit        |-> <<STATE_TX_COMMITOK_RECEIVED>>,
     tx_rollback      |-> <<STATE_TX_ROLLBACKOK_RECEIVED>>]

Busy ==
    \E t \in Tasks : pc[t] \in DOMAIN Awaiting /\ w_stat[t] # "waiting"

\* Client.is_closed, client.py:969-975
is_closed ==
    \/ _state \in {STATE_CLOSED, STATE_DISCONNECTED, STATE_UNINITIALIZED}
    \/ ~_transport

\* Client._write, client.py:1530-1532: self._transport.write fails with
\* AttributeError when _transport is None.  _close calls
\* self._transport.close() the same way (client.py:1269).
_write(s) ==
    IF s.error = None /\ ~_transport
    THEN [s EXCEPT !.error = "AttributeError"]
    ELSE s

\* Client._reset, client.py:1487-1499: assigns _state and _exception
\* directly; the steps that call it clear the flags
_reset(s) ==
    IF s.error # None THEN s
    ELSE [s EXCEPT !.state = STATE_CLOSED,
                   !.exception = None,
                   !.hops = Append(@, STATE_CLOSED)]

\* Client._open_channel up to its wait, client.py:1455-1462
_open_channel_direct(s) ==
    Then(_write(s), STATE_CHANNEL_OPEN_SENT, None)
_open_channel(s) ==
    Then(_write(Then(s, STATE_OPENING_CHANNEL, None)),
         STATE_CHANNEL_OPEN_SENT, None)

\* Client._on_channel_closed, client.py:1443-1449 (scheduling the
\* _open_channel task is in the frame's step)
_on_channel_closed_stays(s) ==
    _write(s)
_on_channel_closed(s) ==
    Then(_write(s), STATE_CHANNEL_CLOSEOK_SENT, None)

\* The loop's exception handler, when a callback or a task nobody awaits
\* ended with s.error: StateManager._on_exception, state.py:70-74
Handled(s) ==
    IF s.error = None THEN s
    ELSE Then([s EXCEPT !.error = None], STATE_EXCEPTION, s.error)

Front(h) == IF h = <<>> THEN <<>> ELSE SubSeq(h, 1, Len(h) - 1)

\* one run of coroutine t: s is what it made of the state, p where it is
\* suspended afterwards, r the exception kept for after the reconnect
Step(t, s, p, r, tr, c0, co) ==
    /\ Commit(s)
    /\ mid' = Front(s.hops)
    /\ pc' = [pc EXCEPT ![t] = p]
    /\ re' = [re EXCEPT ![t] = r]
    /\ _transport' = tr
    /\ _channel0' = c0
    /\ _channel_open' = co

\* coroutine t ends, returning or raising s.error.  The caller sees what
\* the User coroutine raises; the exception of the Reopen task is never
\* retrieved and goes to the loop's exception handler.
Ends(t, s, tr, c0, co) ==
    Step(t, IF t = Reopen THEN Handled(s) ELSE s, "idle", None, tr, c0, co)

\* s if the run goes on, to suspend at p; the end of t if s.error is set
Goes(t, s, p, tr, c0, co) ==
    IF s.error # None
    THEN Ends(t, s, tr, c0, co)
    ELSE Step(t, s, p, re[t], tr, c0, co)

Waiters == <<_waits, is_set, clock, w_stat, wait_id, waits, result>>

\* Client.__init__, client.py:352-380: _set_state(STATE_DISCONNECTED)
ClientInit ==
    /\ _state = STATE_DISCONNECTED
    /\ StateManagerInit
    /\ ClientIdle
    /\ ChannelIdle

\* Client.connect, client.py:382-385, to the first suspension of _connect
\* (client.py:1273-1303)
connect ==
    /\ ~Busy
    /\ pc[User] = "idle"
    /\ LET s == Then(Cur, STATE_CONNECTING, None)
       IN  Goes(User, s, "connecting",
                _transport, IF s.error = None THEN TRUE ELSE _channel0,
                _channel_open)
    /\ UNCHANGED Waiters

\* AMQP.connection_made, protocol.py:27-29, calls Client._on_connected,
\* client.py:1327-1328; a StateTransitionError ends the callback and goes
\* to the loop's exception handler
connection_made(t) ==
    /\ ~Busy
    /\ pc[t] = "connecting"
    /\ Step(t, Handled(Then(Cur, STATE_CONNECTED, None)), "connected", re[t],
            _transport, _channel0, _channel_open)
    /\ UNCHANGED Waiters

\* _connect after create_connection, client.py:1304-1310: the wait timed
\* out, or the transport is stored and the handshake of Channel0 begins
connect_timeout(t) ==
    /\ ~Busy
    /\ pc[t] = "connecting"
    /\ Ends(t, [Then(Cur, STATE_EXCEPTION, "TimeoutError")
                    EXCEPT !.error = "TimeoutError"],
            _transport, _channel0, _channel_open)
    /\ UNCHANGED Waiters

\* create_connection raised (the connection was refused): the exception
\* leaves _connect, client.py:1302-1304, and no state is set
connect_failed(t) ==
    /\ ~Busy
    /\ pc[t] = "connecting"
    /\ Ends(t, [Cur EXCEPT !.error = "OSError"],
            _transport, _channel0, _channel_open)
    /\ UNCHANGED Waiters

connected(t) ==
    /\ ~Busy
    /\ pc[t] = "connected"
    /\ Goes(t, IF _channel0 THEN Cur
               ELSE [Cur EXCEPT !.error = "AttributeError"],
            "handshake", TRUE, _channel0, _channel_open)
    /\ UNCHANGED Waiters

\* the handshake is through: _connect sets STATE_OPENED (client.py:1311)
\* and connect, or _reconnect, goes on into _open_channel
opened(t) ==
    /\ ~Busy
    /\ pc[t] = "handshake"
    /\ Goes(t, _open_channel(Then(Cur, STATE_OPENED, None)), "open",
            _transport, _channel0, _channel_open)
    /\ UNCHANGED Waiters

\* the _open_channel task scheduled by _on_channel_closed starts
open_channel_task ==
    /\ ~Busy
    /\ pc[Reopen] = "scheduled"
    /\ Goes(Reopen, _open_channel(Cur), "open",
            _transport, _channel0, _channel_open)
    /\ UNCHANGED Waiters

\* Client.queue_declare up to its wait, client.py:1064-1067
queue_declare ==
    /\ ~Busy
    /\ pc[User] = "idle"
    /\ Goes(User, Then(_write(Cur), STATE_QUEUE_DECLARE_SENT, None),
            "declare", _transport, _channel0, _channel_open)
    /\ UNCHANGED Waiters

\* Client.close, client.py:387-402, to its first suspension: in the wait
\* for Channel.CloseOk, or in _close (client.py:1265-1268)
close ==
    /\ ~Busy
    /\ pc[User] = "idle"
    /\ IF is_closed \/ ~_channel0 \/ ~_transport
       THEN Ends(User, IF _state # STATE_CLOSED
                       THEN Then(Cur, STATE_CLOSED, None) ELSE Cur,
                 _transport, _channel0, _channel_open)
       ELSE IF _state # STATE_EXCEPTION /\ _channel_open
       THEN Goes(User, Then(_write(Cur), STATE_CHANNEL_CLOSE_SENT, None),
                 "close", _transport, _channel0, _channel_open)
       ELSE Goes(User, Then(Cur, STATE_CLOSING, None), "closing",
                 _transport, _channel0, _channel_open)
    /\ UNCHANGED Waiters

\* _close without its _reset: the transport and Channel0 are kept
closed_unreset ==
    /\ ~Busy
    /\ pc[User] = "closing"
    /\ Ends(User, Then(_write(Cur), STATE_CLOSED, None),
            _transport, _channel0, _channel_open)
    /\ UNCHANGED Waiters

\* _close after Channel0.close(), client.py:1269-1271
closed ==
    /\ ~Busy
    /\ pc[User] = "closing"
    /\ LET s == _reset(Then(_write(Cur), STATE_CLOSED, None))
       IN  IF s.error # None
           THEN Ends(User, s, _transport, _channel0, _channel_open)
           ELSE Ends(User, s, FALSE, FALSE, FALSE)
    /\ UNCHANGED Waiters

\* the coroutine enters _wait_on_state
await(t) ==
    /\ pc[t] \in DOMAIN Awaiting
    /\ w_stat[t] = "none"
    /\ Register(t, Awaiting[pc[t]])
    /\ mid' = <<>>
    /\ UNCHANGED <<pc, re, _transport, _channel0, _channel_open>>

\* the coroutine wakes from sleep() in _wait_on_state
wake(t) ==
    /\ ~Busy
    /\ pc[t] \in DOMAIN Awaiting
    /\ Poll(t)
    /\ mid' = <<>>
    /\ UNCHANGED <<pc, re, _transport, _channel0, _channel_open>>

\* Client._wait_on_state, client.py:1534-1544, and the caller's code after
\* it.  AMQPError: _reconnect (client.py:1474-1479) resets, and _connect
\* runs to its first suspension.
\*   open:    client.py:1464, then connect returns, or _reconnect
\*            (client.py:1481-1484) and the exception is raised again
\*   declare: client.py:1070-1075
\*   reopen:  client.py:1073-1074
\*   close:   client.py:402, 1265-1268
resume(t) ==
    /\ pc[t] \in DOMAIN Awaiting
    /\ w_stat[t] \in {"returned", "raised"}
    /\ w_stat' = [w_stat EXCEPT ![t] = "none"]
    /\ result' = [result EXCEPT ![t] = None]
    /\ UNCHANGED <<_waits, is_set, clock, wait_id, waits>>
    /\ IF w_stat[t] = "raised"
       THEN IF result[t] = "AMQPError"
            THEN Step(t, Then(_reset(Cur), STATE_CONNECTING, None),
                      "connecting", "AMQPError", FALSE, TRUE, FALSE)
            ELSE Ends(t, [Cur EXCEPT !.error = result[t]],
                      _transport, _channel0, _channel_open)
       ELSE CASE pc[t] = "open" ->
                    Ends(t, [Cur EXCEPT !.error = re[t]],
                         _transport, _channel0, TRUE)
              [] pc[t] = "declare" ->
                    IF result[t] = STATE_CHANNEL_CLOSE_RECEIVED
                    THEN Step(t, Cur, "reopen", re[t],
                              _transport, _channel0, _channel_open)
                    ELSE Ends(t, Cur, _transport, _channel0, _channel_open)
              [] pc[t] = "reopen" ->
                    Ends(t, [Cur EXCEPT !.error = "AMQPError"],
                         _transport, _channel0, _channel_open)
              [] pc[t] = "close" ->
                    Goes(t, Then(Cur, STATE_CLOSING, None), "closing",
                         _transport, _channel0, _channel_open)

\* Client._on_remote_close, client.py:1451-1453, called by Channel0 when
\* the broker's Connection.Close arrives on channel 0 (client.py:1335-1337)
_on_remote_close(exc) ==
    /\ ~Busy
    /\ _transport /\ _channel0
    /\ Commit(Then(Cur, STATE_CLOSED, exc))
    /\ mid' = <<>>
    /\ UNCHANGED <<pc, re, _transport, _channel0, _channel_open>>
    /\ UNCHANGED Waiters

\* the frames of the data channel the broker sends
Frames == {"Channel.OpenOk", "Channel.Close", "Channel.CloseOk",
           "Queue.DeclareOk"}

\* Client._on_frame, client.py:1333-1441, for a frame of the data channel.
\* A StateTransitionError leaves the handler and data_received and goes to
\* the loop's exception handler.  At most one _open_channel task is kept.
_on_frame(value) ==
    /\ ~Busy
    /\ _transport
    /\ value = "Channel.Close" => pc[Reopen] = "idle"
    /\ LET s == CASE value = "Channel.OpenOk" ->
                        Then(Cur, STATE_CHANNEL_OPENOK_RECEIVED, None)
                  [] value = "Channel.Close" ->
                        _on_channel_closed(
                            Then(Cur, STATE_CHANNEL_CLOSE_RECEIVED, None))
                  [] value = "Channel.CloseOk" ->
                        Then(Cur, STATE_CHANNEL_CLOSEOK_RECEIVED, None)
                  [] value = "Queue.DeclareOk" ->
                        Then(Cur, STATE_QUEUE_DECLAREOK_RECEIVED, None)
       IN  /\ Commit(Handled(s))
           /\ mid' = Front(Handled(s).hops)
           /\ pc' = IF value = "Channel.Close" /\ s.error = None
                    THEN [pc EXCEPT ![Reopen] = "scheduled"] ELSE pc
           /\ _channel_open' =
                IF \/ value = "Channel.CloseOk"
                   \/ value = "Channel.Close" /\ s.error = None
                THEN FALSE ELSE _channel_open
    /\ UNCHANGED <<re, _transport, _channel0>>
    /\ UNCHANGED Waiters

\* StateManager._on_exception, state.py:70-74, for an exception a callback
\* of the loop raised: protocol.py:29, 33 and 45-46 hand the return value
\* of the client's handlers, None, to ensure_future, which raises
\* TypeError; a context without an exception gives None.
LoopErrors == {None, "TypeError"}
_on_exception(exc) ==
    /\ ~Busy
    /\ _transport
    /\ OnException(exc)
    /\ mid' = <<>>
    /\ UNCHANGED <<pc, re, _transport, _channel0, _channel_open>>

run_callbacks ==
    /\ ~Busy
    /\ RunCallbacks
    /\ mid' = <<>>
    /\ UNCHANGED <<pc, re, _transport, _channel0, _channel_open>>

ClientNext ==
    \/ connect /\ UNCHANGED chan_vars
    \/ \E t \in Tasks : connection_made(t) /\ UNCHANGED chan_vars
    \/ \E t \in Tasks : connect_timeout(t) /\ UNCHANGED chan_vars
    \/ \E t \in Tasks : connect_failed(t) /\ UNCHANGED chan_vars
    \/ \E t \in Tasks : connected(t) /\ UNCHANGED chan_vars
    \/ \E t \in Tasks : opened(t) /\ UNCHANGED chan_vars
    \/ open_channel_task /\ UNCHANGED chan_vars
    \/ queue_declare /\ UNCHANGED chan_vars
    \/ close /\ UNCHANGED chan_vars
    \/ closed /\ UNCHANGED chan_vars
    \/ \E t \in Tasks : await(t) /\ UNCHANGED chan_vars
    \/ \E t \in Tasks : wake(t) /\ UNCHANGED chan_vars
    \/ \E t \in Tasks : resume(t) /\ UNCHANGED chan_vars
    \/ _on_remote_close("AMQPError") /\ UNCHANGED chan_vars
    \/ \E value \in Frames : _on_frame(value) /\ UNCHANGED chan_vars
    \/ \E exc \in LoopErrors : _on_exception(exc) /\ UNCHANGED chan_vars
    \/ run_callbacks /\ UNCHANGED chan_vars

ClientSpec == ClientInit /\ [][ClientNext]_vars

(***************************************************************************)
(* The operations on an open channel, client.py:404-1158.  The frames the  *)
(* client writes go to the broker, which answers the requests in the order *)
(* they were written; its frames are dispatched to Client._on_frame, as    *)
(* AMQP.data_received does with on_frame_received (protocol.py:45-46).     *)
(***************************************************************************)

\* exceptions.CLASS_MAPPING: the error class bound to a reply code, for the
\* reply codes the broker closes a channel with here
ReplyCodes == {404, 406}
CLASS_MAPPING == (404 :> "NotFound") @@ (406 :> "PreconditionFailed")

\* commands.Channel.Close(reply_code, ...), Basic.Ack and Basic.Nack
\* (delivery_tag, multiple), Basic.ConsumeOk(consumer_tag)
Close(code) == [Method("Channel.Close") EXCEPT !.reply_code = code]
Confirm(name, tag, multiple) ==
    [Method(name) EXCEPT !.delivery_tag = tag, !.multiple = multiple]
ConsumeOk(tag) == [Method("Basic.ConsumeOk") EXCEPT !.consumer_tag = tag]

\* raise exceptions.CLASS_MAPPING[err_frame.reply_code](...), e.g.
\* client.py:1073-1074: the class raised; a frame without reply_code gives
\* AttributeError
reply_code_of(f) ==
    IF f.name = "Channel.Close" THEN CLASS_MAPPING[f.reply_code]
    ELSE "AttributeError"

\* The exchange and queue operations and basic_consume, by the pc of their
\* wait: the request written, the state set after it and the broker's
\* positive reply.
\*   exchange_bind client.py:696-699, exchange_declare 749-753,
\*   exchange_delete 781-782, exchange_unbind 809-812, queue_bind
\*   1008-1010, queue_declare 1064-1067, queue_delete 1098-1100,
\*   queue_purge 1115-1116, queue_unbind 1155-1157, basic_consume 504-507
Operations ==
    [exchange_bind    |-> [request |-> "Exchange.Bind",
                           sent |-> STATE_EXCHANGE_BIND_SENT,
                           ok |-> "Exchange.BindOk"],
     exchange_declare |-> [request |-> "Exchange.Declare",
                           sent |-> STATE_EXCHANGE_DECLARE_SENT,
                           ok |-> "Exchange.DeclareOk"],
     exchange_delete  |-> [request |-> "Exchange.Delete",
                           sent |-> STATE_EXCHANGE_DELETE_SENT,
                           ok |-> "Exchange.DeleteOk"],
     exchange_unbind  |-> [request |-> "Exchange.Unbind",
                           sent |-> STATE_EXCHANGE_UNBIND_SENT,
                           ok |-> "Exchange.UnbindOk"],
     queue_bind       |-> [request |-> "Queue.Bind",
                           sent |-> STATE_QUEUE_BIND_SENT,
                           ok |-> "Queue.BindOk"],
     declare          |-> [request |-> "Queue.Declare",
                           sent |-> STATE_QUEUE_DECLARE_SENT,
                           ok |-> "Queue.DeclareOk"],
     queue_delete     |-> [request |-> "Queue.Delete",
                           sent |-> STATE_QUEUE_DELETE_SENT,
                           ok |-> "Queue.DeleteOk"],
     queue_purge      |-> [request |-> "Queue.Purge",
                           sent |-> STATE_QUEUE_PURGE_SENT,
                           ok |-> "Queue.PurgeOk"],
     queue_unbind     |-> [request |-> "Queue.Unbind",
                           sent |-> STATE_QUEUE_UNBIND_SENT,
                           ok |-> "Queue.UnbindOk"],
     basic_consume    |-> [request |-> "Basic.Consume",
                           sent |-> STATE_BASIC_CONSUME_SENT,
                           ok |-> "Basic.ConsumeOk"]]

\* the nine exchange and queue operations
Management == DOMAIN Operations \ {"basic_consume"}

\* the operations that read the reply from _last_frame when they return:
\* queue_declare (client.py:1075) and queue_purge (client.py:1125)
ReadsReply == {"declare", "queue_purge"}

\* Client._on_frame, client.py:1341-1438: the state set for a frame of the
\* data channel
Received ==
    ("Basic.Ack" :> STATE_BASIC_ACK_RECEIVED) @@
    ("Basic.CancelOk" :> STATE_BASIC_CANCELOK_RECEIVED) @@
    ("Basic.ConsumeOk" :> STATE_BASIC_CONSUMEOK_RECEIVED) @@
    ("Basic.Deliver" :> STATE_BASIC_DELIVER_RECEIVED) @@
    ("Basic.GetEmpty" :> STATE_BASIC_GETEMPTY_RECEIVED) @@
    ("Basic.GetOk" :> STATE_BASIC_GETOK_RECEIVED) @@
    ("Basic.Nack" :> STATE_BASIC_NACK_RECEIVED) @@
    ("Basic.QosOk" :> STATE_BASIC_QOSOK_RECEIVED) @@
    ("Basic.RecoverOk" :> STATE_BASIC_RECOVEROK_RECEIVED) @@
    ("Basic.Reject" :> STATE_BASIC_REJECT_RECEIVED) @@
    ("Basic.Return" :> STATE_BASIC_RETURN_RECEIVED) @@
    ("Confirm.SelectOk" :> STATE_CONFIRM_SELECTOK_RECEIVED) @@
    ("Channel.OpenOk" :> STATE_CHANNEL_OPENOK_RECEIVED) @@
    ("Channel.Close" :> STATE_CHANNEL_CLOSE_RECEIVED) @@
    ("Channel.CloseOk" :> STATE_CHANNEL_CLOSEOK_RECEIVED) @@
    ("ContentHeader" :> STATE_CONTENT_HEADER_RECEIVED) @@
    ("ContentBody" :> STATE_CONTENT_BODY_RECEIVED) @@
    ("Exchange.BindOk" :> STATE_EXCHANGE_BINDOK_RECEIVED) @@
    ("Exchange.DeclareOk" :> STATE_EXCHANGE_DECLAREOK_RECEIVED) @@
    ("Exchange.DeleteOk" :> STATE_EXCHANGE_DELETEOK_RECEIVED) @@
    ("Exchange.UnbindOk" :> STATE_EXCHANGE_UNBINDOK_RECEIVED) @@
    ("Queue.BindOk" :> STATE_QUEUE_BINDOK_RECEIVED) @@
    ("Queue.DeclareOk" :> STATE_QUEUE_DECLAREOK_RECEIVED) @@
    ("Queue.DeleteOk" :> STATE_QUEUE_DELETEOK_RECEIVED) @@
    ("Queue.PurgeOk" :> STATE_QUEUE_PURGEOK_RECEIVED) @@
    ("Queue.UnbindOk" :> STATE_QUEUE_UNBINDOK_RECEIVED) @@
    ("Tx.SelectOk" :> STATE_TX_SELECTOK_RECEIVED) @@
    ("Tx.CommitOk" :> STATE_TX_COMMITOK_RECEIVED) @@
    ("Tx.RollbackOk" :> STATE_TX_ROLLBACKOK_RECEIVED)

\* a request on the wire: the method, the coroutine that wrote it and, for
\* Basic.Publish, its delivery tag
Request(t, name, tag) == [request |-> name, task |-> t, tag |-> tag]

\* a step that writes nothing and starts or ends no operation
Silent == written' = <<>>

\* the wait of an operation: the state manager's Register and Poll
op_await(t) ==
    /\ UNCHANGED chan_more
    /\ await(t)
    /\ Silent
    /\ UNCHANGED <<chan_fields, chan_locals, wire, answer, inbound,
                   executed>>

op_wake(t) ==
    /\ UNCHANGED chan_more
    /\ wake(t)
    /\ Silent
    /\ UNCHANGED <<chan_fields, chan_locals, wire, answer, inbound,
                   executed>>

op_callbacks ==
    /\ UNCHANGED chan_more
    /\ run_callbacks
    /\ Silent
    /\ UNCHANGED <<chan_fields, chan_locals, wire, answer, inbound,
                   executed>>

\* an operation of the table up to its wait: _write, then _set_state; the
\* request is written even when _set_state raises StateTransitionError.
\* basic_consume appends its future and callback (client.py:508-509).
call(t, o) ==
    /\ UNCHANGED chan_more
    /\ ~Busy
    /\ pc[t] = "idle"
    /\ LET s == Then(_write(Cur), Operations[o].sent, None)
       IN  /\ Goes(t, s, o, _transport, _channel0, _channel_open)
           /\ outcome' = [outcome EXCEPT ![t] = s.error]
           /\ _pending_consumers' =
                IF o = "basic_consume" /\ s.error = None
                THEN Append(_pending_consumers,
                            [future |-> t, callback |-> t])
                ELSE _pending_consumers
    /\ op' = [op EXCEPT ![t] = o]
    /\ answer' = [answer EXCEPT ![t] = NoFrame]
    /\ consumer_tag_future' = [consumer_tag_future EXCEPT ![t] = ""]
    /\ err_frame' = [err_frame EXCEPT ![t] = NoFrame]
    /\ IF _transport
       THEN /\ wire' = Append(wire, Request(t, Operations[o].request, 0))
            /\ written' = <<Method(Operations[o].request)>>
       ELSE /\ wire' = wire
            /\ written' = <<>>
    /\ UNCHANGED <<_last_frame, _acks, _nacks, _delivery_tag,
                   _publisher_confirms, _consumers, _message,
                   _max_frame_size, delivery_tag, message_body,
                   inbound, executed>>
    /\ UNCHANGED Waiters

\* Client._reconnect, client.py:1474-1477, entered when the wait of t
\* raised an AMQPError: the local publisher_confirms keeps the flag, which
\* _reset clears (client.py:1496)
_reconnect(t) ==
    /\ UNCHANGED <<_transactional, _on_message_return, response,
                   consumer_tag, protocol_vars,
                   sequence>>
    /\ IF w_stat[t] = "raised" /\ result[t] = "AMQPError"
       THEN /\ publisher_confirms' =
                [publisher_confirms EXCEPT ![t] = _publisher_confirms]
            /\ _publisher_confirms' = FALSE
       ELSE UNCHANGED <<publisher_confirms, _publisher_confirms>>

Without1(q, e) ==
    LET F[i \in 0..Len(q)] ==
            IF i = 0 THEN <<>>
            ELSE IF q[i] = e /\ \A j \in 1..(i-1) : q[j] # e THEN F[i-1]
            ELSE Append(F[i-1], q[i])
    IN  F[Len(q)]

\* the operation after its wait.  Raised: Client._wait_on_state
\* (client.py:1537-1541) reconnects for an AMQPError, any other exception
\* leaves the operation.  Returned STATE_CHANNEL_CLOSE_RECEIVED: err_frame
\* is read from _last_frame and the operation waits for the re-open (e.g.
\* client.py:1070-1072); basic_consume first takes its entry out of
\* _pending_consumers (client.py:513), list.remove raising ValueError when
\* it is not there.  Returned the reply: the operation returns;
\* queue_declare and queue_purge read their result from _last_frame, and
\* basic_consume awaits its future (client.py:518-520).
reply(t) ==
    /\ pc[t] \in DOMAIN Operations
    /\ w_stat[t] \in {"returned", "raised"}
    /\ Silent
    /\ _reconnect(t)
    /\ UNCHANGED <<_last_frame, _acks, _nacks, _delivery_tag,
                   _consumers, _message,
                   _max_frame_size, op, delivery_tag, consumer_tag_future,
                   message_body, wire, answer, inbound,
                   executed>>
    /\ IF w_stat[t] = "raised"
       THEN /\ resume(t)
            /\ outcome' = [outcome EXCEPT ![t] =
                            IF result[t] = "AMQPError" THEN None
                            ELSE result[t]]
            /\ UNCHANGED <<_pending_consumers, err_frame>>
       ELSE /\ w_stat' = [w_stat EXCEPT ![t] = "none"]
            /\ result' = [result EXCEPT ![t] = None]
            /\ UNCHANGED <<_waits, is_set, clock, wait_id, waits>>
            /\ IF result[t] = STATE_CHANNEL_CLOSE_RECEIVED
               THEN LET mine == [future |-> t, callback |-> t]
                        gone == /\ pc[t] = "basic_consume"
                                /\ ~InSeq(_pending_consumers, mine)
                    IN  /\ IF gone
                           THEN Ends(t, [Cur EXCEPT !.error = "ValueError"],
                                     _transport, _channel0, _channel_open)
                           ELSE Step(t, Cur, "reopen", re[t],
                                     _transport, _channel0, _channel_open)
                        /\ outcome' = IF gone
                                      THEN [outcome EXCEPT ![t] = "ValueError"]
                                      ELSE outcome
                        /\ err_frame' = IF gone THEN err_frame
                                        ELSE [err_frame EXCEPT
                                                ![t] = _last_frame]
                        /\ _pending_consumers' =
                                IF pc[t] = "basic_consume"
                                THEN Without1(_pending_consumers, mine)
                                ELSE _pending_consumers
               ELSE /\ UNCHANGED <<_pending_consumers, err_frame>>
                    /\ IF /\ pc[t] = "basic_consume"
                          /\ consumer_tag_future[t] = ""
                       THEN /\ Step(t, Cur, "future", re[t],
                                    _transport, _channel0, _channel_open)
                            /\ UNCHANGED outcome
                       ELSE /\ Ends(t, Cur,
                                    _transport, _channel0, _channel_open)
                            /\ outcome' = [outcome EXCEPT ![t] =
                                IF pc[t] = "basic_consume"
                                THEN consumer_tag_future[t]
                                ELSE IF /\ pc[t] \in ReadsReply
                                        /\ _last_frame.name
                                            # Operations[pc[t]].ok
                                THEN "AttributeError"
                                ELSE "Return"]

\* basic_consume after await consumer_tag_future, client.py:518-520
future_done(t) ==
    /\ UNCHANGED chan_more
    /\ ~Busy
    /\ pc[t] = "future"
    /\ consumer_tag_future[t] # ""
    /\ Ends(t, Cur, _transport, _channel0, _channel_open)
    /\ outcome' = [outcome EXCEPT ![t] = consumer_tag_future[t]]
    /\ Silent
    /\ UNCHANGED <<chan_fields, op, delivery_tag, err_frame,
                   consumer_tag_future, message_body, wire, answer, inbound,
                   executed>>
    /\ UNCHANGED Waiters

\* the operation after its wait for the re-open: it raises the class bound
\* to err_frame.reply_code (e.g. client.py:1073-1074); publish returns
\* False (client.py:966-967)
reopened(t) ==
    /\ pc[t] = "reopen"
    /\ w_stat[t] \in {"returned", "raised"}
    /\ Silent
    /\ _reconnect(t)
    /\ UNCHANGED <<_last_frame, _acks, _nacks, _delivery_tag,
                   _pending_consumers, _consumers, _message,
                   _max_frame_size, op, delivery_tag, err_frame,
                   consumer_tag_future, message_body, wire, answer, inbound,
                   executed>>
    /\ IF w_stat[t] = "raised"
       THEN /\ resume(t)
            /\ outcome' = [outcome EXCEPT ![t] =
                            IF result[t] = "AMQPError" THEN None
                            ELSE result[t]]
       ELSE /\ w_stat' = [w_stat EXCEPT ![t] = "none"]
            /\ result' = [result EXCEPT ![t] = None]
            /\ UNCHANGED <<_waits, is_set, clock, wait_id, waits>>
            /\ IF op[t] = "publish"
               THEN /\ Ends(t, Cur, _transport, _channel0, _channel_open)
                    /\ outcome' = [outcome EXCEPT ![t] = "False"]
               ELSE /\ Ends(t, [Cur EXCEPT
                                    !.error = reply_code_of(err_frame[t])],
                            _transport, _channel0, _channel_open)
                    /\ outcome' = [outcome EXCEPT
                                    ![t] = reply_code_of(err_frame[t])]

\* the _open_channel task that _on_channel_closed scheduled: Channel.Open
\* is written after STATE_OPENING_CHANNEL is set (client.py:1457-1462)
reopen_channel ==
    /\ UNCHANGED chan_more
    /\ open_channel_task
    /\ IF Then(Cur, STATE_OPENING_CHANNEL, None).error = None /\ _transport
       THEN /\ wire' = Append(wire, Request(Reopen, "Channel.Open", 0))
            /\ written' = <<Method("Channel.Open")>>
       ELSE /\ wire' = wire
            /\ written' = <<>>
    /\ UNCHANGED <<chan_fields, chan_locals, answer, inbound, executed>>

\* the task after its wait: _channel_open.set() (client.py:1464)
channel_reopened ==
    /\ UNCHANGED chan_more
    /\ pc[Reopen] = "open"
    /\ resume(Reopen)
    /\ Silent
    /\ UNCHANGED <<chan_fields, chan_locals, wire, answer, inbound,
                   executed>>

\* the body frames of a sequence of frames, joined in the order of the sequence
Joined(w) ==
    LET F[n \in 0..Len(w)] ==
            IF n = 0 THEN <<>>
            ELSE IF w[n].name = "ContentBody" THEN F[n-1] \o w[n].body
            ELSE F[n-1]
    IN  F[Len(w)]

\* message.Message: the method frame, the header and the body frames
Message(value) ==
    [method |-> value, header |-> NoFrame, body_frames |-> <<>>]

\* a message taken for complete with its first body frame
complete_early(m) ==
    /\ m.header # NoFrame
    /\ m.body_frames # <<>>

\* Message.complete: the body frames have the bytes the header announced
complete(m) ==
    /\ m.header # NoFrame
    /\ Len(Joined(m.body_frames)) = m.header.body_size

\* the method frames that start a message (client.py:1357, 1363, 1380)
Starts == {"Basic.Deliver", "Basic.GetOk", "Basic.Return"}

\* _message once the frame's branch of _on_frame has stored the frame
\* (client.py:1357, 1363, 1380, 1390, 1393)
Stored(value) ==
    IF value.name \in Starts THEN Message(value)
    ELSE IF _message = NoFrame THEN NoFrame
    ELSE IF value.name = "ContentHeader"
    THEN [_message EXCEPT !.header = value]
    ELSE IF value.name = "ContentBody"
    THEN [_message EXCEPT !.body_frames = Append(@, value)]
    ELSE _message

\* the handler raising error where fails holds
Failing(s, fails, error) ==
    IF s.error = None /\ fails THEN [s EXCEPT !.error = error] ELSE s

\* the coroutine whose future basic_get put under the key 'GetOk' of
\* _consumers (client.py:541): none, or one
Getting == {c[2] : c \in {b \in _consumers : b[1] = "GetOk"}}

\* self._consumers['GetOk'].set_result(...), client.py:1360 and 1405:
\* KeyError without the key, InvalidStateError when the future has its
\* result
set_result(s) ==
    Failing(s, Getting = {} \/ \E t \in Getting : response[t].done,
            IF Getting = {} THEN "KeyError" ELSE "InvalidStateError")

\* client.py:1398-1413, after STATE_MESSAGE_ASSEMBLED is set: the callback
\* of the consumer tag is looked up (KeyError when there is none), or the
\* future of basic_get gets the message, or the return callback is taken
Handed(s) ==
    IF _message.method.name = "Basic.Deliver"
    THEN Failing(s, \A c \in _consumers :
                        c[1] # _message.method.consumer_tag,
                 "KeyError")
    ELSE IF _message.method.name = "Basic.GetOk" THEN set_result(s)
    ELSE s

\* Client._on_frame, client.py:1333-1441, for the frame value of channel
\* channel: what it makes of the state.  A frame of channel 0 goes to
\* Channel0.process and sets no state here; a frame no branch names
\* (Channel.Flow, Basic.Cancel) sets STATE_EXCEPTION with a RuntimeError
\* (client.py:1439-1441); Basic.ConsumeOk takes the oldest pending consumer
\* (client.py:1350), popleft raising IndexError when there is none; a
\* content frame without a message raises AttributeError; the body frame
\* that completes the message sets STATE_MESSAGE_ASSEMBLED and hands the
\* message on (client.py:1394-1413).
Dispatched(channel, value) ==
    IF channel = 0 THEN Cur
    ELSE IF value.name \notin DOMAIN Received
    THEN Then(Cur, STATE_EXCEPTION, "RuntimeError")
    ELSE LET s == Then(Cur, Received[value.name], None)
         IN  CASE value.name = "Channel.Close" -> _on_channel_closed(s)
               [] value.name = "Basic.ConsumeOk" ->
                    Failing(s, _pending_consumers = <<>>, "IndexError")
               [] value.name = "Basic.GetEmpty" -> set_result(s)
               [] value.name = "ContentHeader" ->
                    Failing(s, _message = NoFrame, "AttributeError")
               [] value.name = "ContentBody" ->
                    IF _message = NoFrame
                    THEN Failing(s, TRUE, "AttributeError")
                    ELSE IF ~complete(Stored(value)) THEN s
                    ELSE Handed(Then(s, STATE_MESSAGE_ASSEMBLED, None))
               [] OTHER -> s

\* Client._on_frame with the fields it assigns.  An exception leaves the
\* handler and data_received and goes to the loop's exception handler.  At
\* most one _open_channel task is kept.  _pop_message (client.py:1467-1472)
\* takes the message when a callback is called with it, and before
\* set_result is called with it.
on_frame_received(channel, value) ==
    /\ ~Busy
    /\ _transport
    /\ (channel # 0 /\ value.name = "Channel.Close") => pc[Reopen] = "idle"
    /\ _last_frame' = value
    /\ \E s \in {Dispatched(channel, value)} :
       LET done == channel # 0 /\ s.error = None
           name == value.name
           stored == /\ channel # 0
                     /\ name \in Starts \cup {"ContentHeader", "ContentBody"}
                     /\ ~_set_state(_state, _exception, Received[name],
                                    None).raised
           whole == /\ stored
                    /\ name = "ContentBody"
                    /\ _message # NoFrame
                    /\ complete(Stored(value))
           kind == _message.method.name
           popped == /\ whole
                     /\ CASE kind = "Basic.Deliver" -> done
                          [] kind = "Basic.GetOk" -> Getting # {}
                          [] OTHER -> _on_message_return # None
           callback ==
                IF kind = "Basic.Return" THEN _on_message_return
                ELSE (CHOOSE c \in _consumers :
                        c[1] = _message.method.consumer_tag)[2]
       IN  /\ _message' = IF popped THEN NoFrame
                          ELSE IF stored THEN Stored(value) ELSE _message
           /\ executed' =
                IF popped /\ kind # "Basic.GetOk"
                THEN Append(executed, [callback |-> callback,
                                       message |-> Stored(value)])
                ELSE executed
           /\ response' =
                IF done /\ name = "Basic.GetEmpty"
                THEN [t \in Tasks |->
                        IF t \in Getting
                        THEN [done |-> TRUE, result |-> NoFrame]
                        ELSE response[t]]
                ELSE IF done /\ whole /\ kind = "Basic.GetOk"
                THEN [t \in Tasks |->
                        IF t \in Getting
                        THEN [done |-> TRUE, result |-> Stored(value)]
                        ELSE response[t]]
                ELSE response
           /\ Commit(Handled(s))
           /\ mid' = Front(Handled(s).hops)
           /\ pc' = IF done /\ name = "Channel.Close"
                    THEN [pc EXCEPT ![Reopen] = "scheduled"] ELSE pc
           /\ _channel_open' =
                IF \/ done /\ name = "Channel.Close"
                   \/ channel # 0 /\ name = "Channel.CloseOk"
                THEN FALSE ELSE _channel_open
           /\ written' =
                IF done /\ name = "Channel.Close"
                THEN <<Method("Channel.CloseOk")>> ELSE <<>>
           /\ _acks' = IF done /\ name = "Basic.Ack"
                       THEN _acks \cup {value.delivery_tag} ELSE _acks
           /\ _nacks' = IF done /\ name = "Basic.Nack"
                        THEN _nacks \cup {value.delivery_tag} ELSE _nacks
           /\ IF done /\ name = "Basic.ConsumeOk"
              THEN LET head == Head(_pending_consumers)
                   IN  /\ _pending_consumers' = Tail(_pending_consumers)
                       /\ _consumers' =
                            {c \in _consumers : c[1] # value.consumer_tag}
                            \cup {<<value.consumer_tag, head.callback>>}
                       /\ consumer_tag_future' =
                            [consumer_tag_future EXCEPT
                                ![head.future] = value.consumer_tag]
              ELSE UNCHANGED <<_pending_consumers, _consumers,
                               consumer_tag_future>>
    /\ UNCHANGED <<re, _transport, _channel0>>
    /\ UNCHANGED <<_delivery_tag, _publisher_confirms, _max_frame_size,
                   op, delivery_tag, err_frame, message_body, outcome>>
    /\ UNCHANGED <<_transactional, _on_message_return,
                   publisher_confirms, consumer_tag, protocol_vars>>
    /\ UNCHANGED Waiters

\* the consumer tags the broker gives out
ConsumerTags == {"ctag1", "ctag2"}

\* the requests the broker has one answer to (what their callers wait
\* for: client.py:449, 668, 1182, 1196, 1213)
Replies ==
    ("Basic.Cancel" :> "Basic.CancelOk") @@
    ("Confirm.Select" :> "Confirm.SelectOk") @@
    ("Tx.Select" :> "Tx.SelectOk") @@
    ("Tx.Commit" :> "Tx.CommitOk") @@
    ("Tx.Rollback" :> "Tx.RollbackOk")

\* what the broker answers a request with: Channel.OpenOk to Channel.Open;
\* the positive reply, or Channel.Close with a reply code, to a request of
\* the table; a consumer tag no consumer has yet to Basic.Consume;
\* Basic.GetEmpty to Basic.Get (Basic.GetOk starts a message, see get_ok); and
\* Channel.Close to a Basic.Publish it does not confirm (see confirmed)
Answers(r) ==
    IF r.request = "Channel.Open" THEN {Method("Channel.OpenOk")}
    ELSE IF r.request \in DOMAIN Replies THEN {Method(Replies[r.request])}
    ELSE IF r.request = "Basic.Get" THEN {Method("Basic.GetEmpty")}
    ELSE {Close(code) : code \in ReplyCodes} \cup
         IF r.request = "Basic.Consume"
         THEN {ConsumeOk(tag) :
                tag \in {c \in ConsumerTags :
                            \A b \in _consumers : b[1] # c}}
         ELSE {Method(Operations[o].ok) :
                o \in {x \in DOMAIN Operations :
                            Operations[x].request = r.request}}

\* the broker answers the oldest request, not in the middle of a message
\* it is sending; with Channel.Close it drops the requests written after
\* it on the channel it closed
answered_with(value) ==
    /\ inbound = <<>>
    /\ inbound' = inbound
    /\ UNCHANGED sequence
    /\ on_frame_received(1, value)
    /\ answer' = [answer EXCEPT ![Head(wire).task] = value]
    /\ wire' = IF value.name = "Channel.Close" THEN <<>> ELSE Tail(wire)

answered ==
    /\ wire # <<>>
    /\ \E value \in Answers(Head(wire)) : answered_with(value)

\* a heartbeat of the broker, on channel 0
heartbeat ==
    /\ UNCHANGED sequence
    /\ on_frame_received(0, Method("Heartbeat"))
    /\ UNCHANGED <<wire, answer, inbound>>

\* The client after connect() returned (client.py:382-385): the channel is
\* open, the last frame was Channel.OpenOk, no coroutine is running.
Connected(sizes) ==
    /\ StateManagerInit
    /\ pc = [t \in Tasks |-> "idle"]
    /\ re = [t \in Tasks |-> None]
    /\ _transport = TRUE
    /\ _channel0 = TRUE
    /\ _channel_open = TRUE
    /\ mid = <<>>
    /\ _acks = {}
    /\ _nacks = {}
    /\ _delivery_tag = 0
    /\ _pending_consumers = <<>>
    /\ _message = NoFrame
    /\ _transactional = FALSE
    /\ _max_frame_size \in sizes
    /\ NoOperation

OpInit ==
    /\ _consumers = {}
    /\ _on_message_return = None
    /\ _state = STATE_CHANNEL_OPENOK_RECEIVED
    /\ _last_frame = Method("Channel.OpenOk")
    /\ _publisher_confirms = FALSE
    /\ Connected({2})

\* one caller using the exchange and queue operations and basic_consume
\* one after another
OpNext ==
    \/ \E o \in DOMAIN Operations : call(User, o)
    \/ op_await(User)
    \/ op_await(Reopen)
    \/ op_wake(User)
    \/ op_wake(Reopen)
    \/ op_callbacks
    \/ reply(User)
    \/ reopened(User)
    \/ reopen_channel
    \/ channel_reopened
    \/ answered
    \/ heartbeat

OpSpec == OpInit /\ [][OpNext]_vars

(***************************************************************************)
(* Publishing.                                                             *)
(***************************************************************************)
\* the most messages published in one behaviour
MaxPublish == 3

\* the largest negotiated frame size and the longest message body
MaxFrameSize == 3
MaxBody == 4

\* the message bodies: byte strings of up to MaxBody bytes 0 and 1
Bodies == UNION {[1..n -> {0, 1}] : n \in 0..MaxBody}

\* the frame count rounded down instead of up
frames_floor(body_size, max_frame_size) == body_size \div max_frame_size

\* client.py:941: frames = int(math.ceil(body_size / self._max_frame_size)).
\* The quotient is a float; for sizes below 2^53 it is the exact quotient
\* rounded to nearest, and its ceiling is the integer ceiling.
frames(body_size, max_frame_size) ==
    IF body_size % max_frame_size = 0
    THEN body_size \div max_frame_size
    ELSE body_size \div max_frame_size + 1

\* client.py:942-947: the body frames publish writes, one for each offset
\* in range(0, frames)
ContentBody(body, max_frame_size) ==
    LET body_size == Len(body)
        F[n \in 0..frames(body_size, max_frame_size)] ==
            IF n = 0 THEN <<>>
            ELSE LET start == max_frame_size * (n - 1)
                     end == IF start + max_frame_size > body_size
                            THEN body_size ELSE start + max_frame_size
                 IN  Append(F[n-1],
                            [Method("ContentBody") EXCEPT
                                !.body = SubSeq(body, start + 1, end)])
    IN  F[frames(body_size, max_frame_size)]

\* publish taking the counter as it is for its delivery tag, as a publish
\* would that read it before another incremented it
publish_uncounted(t, body) ==
    /\ UNCHANGED chan_more
    /\ ~Busy
    /\ pc[t] = "idle"
    /\ _delivery_tag < MaxPublish
    /\ LET tag == _delivery_tag
           s1 == Then(_write(Cur), STATE_BASIC_PUBLISH_SENT, None)
           s2 == Then(_write(s1), STATE_CONTENT_HEADER_SENT, None)
           chunks == ContentBody(body, _max_frame_size)
           s3 == Then(IF chunks = <<>> THEN s2 ELSE _write(s2),
                      STATE_CONTENT_BODY_SENT, None)
       IN  /\ _delivery_tag' = tag
           /\ delivery_tag' = [delivery_tag EXCEPT ![t] = tag]
           /\ written' =
                IF ~_transport THEN <<>>
                ELSE <<Method("Basic.Publish")>> \o
                     (IF s1.error # None THEN <<>>
                      ELSE <<Method("ContentHeader")>> \o
                           (IF s2.error # None THEN <<>> ELSE chunks))
           /\ IF _publisher_confirms
              THEN Goes(t, s3, "publish", _transport, _channel0,
                        _channel_open)
              ELSE Ends(t, s3, _transport, _channel0, _channel_open)
           /\ outcome' = [outcome EXCEPT ![t] =
                            IF s3.error # None THEN s3.error
                            ELSE IF _publisher_confirms THEN None
                            ELSE "Return"]
           /\ wire' = IF _publisher_confirms /\ s3.error = None
                      THEN Append(wire, Request(t, "Basic.Publish", tag))
                      ELSE wire
    /\ op' = [op EXCEPT ![t] = "publish"]
    /\ message_body' = body
    /\ answer' = [answer EXCEPT ![t] = NoFrame]
    /\ UNCHANGED <<_last_frame, _acks, _nacks, _publisher_confirms,
                   _pending_consumers, _consumers, _message,
                   _max_frame_size, err_frame, consumer_tag_future,
                   inbound, executed>>
    /\ UNCHANGED Waiters

\* Client.publish up to its wait, client.py:911-953: the delivery tag, then
\* three writes each followed by _set_state; an exception of _set_state
\* leaves the method with what was written so far.  Without publisher
\* confirms the loop is not entered and the method returns None.
publish(t, body) ==
    /\ UNCHANGED chan_more
    /\ ~Busy
    /\ pc[t] = "idle"
    /\ _delivery_tag < MaxPublish
    /\ LET tag == _delivery_tag + 1
           s1 == Then(_write(Cur), STATE_BASIC_PUBLISH_SENT, None)
           s2 == Then(_write(s1), STATE_CONTENT_HEADER_SENT, None)
           chunks == ContentBody(body, _max_frame_size)
           s3 == Then(IF chunks = <<>> THEN s2 ELSE _write(s2),
                      STATE_CONTENT_BODY_SENT, None)
       IN  /\ _delivery_tag' = tag
           /\ delivery_tag' = [delivery_tag EXCEPT ![t] = tag]
           /\ written' =
                IF ~_transport THEN <<>>
                ELSE <<Method("Basic.Publish")>> \o
                     (IF s1.error # None THEN <<>>
                      ELSE <<Method("ContentHeader")>> \o
                           (IF s2.error # None THEN <<>> ELSE chunks))
           /\ IF _publisher_confirms
              THEN Goes(t, s3, "publish", _transport, _channel0,
                        _channel_open)
              ELSE Ends(t, s3, _transport, _channel0, _channel_open)
           /\ outcome' = [outcome EXCEPT ![t] =
                            IF s3.error # None THEN s3.error
                            ELSE IF _publisher_confirms THEN None
                            ELSE "Return"]
           /\ wire' = IF _publisher_confirms /\ s3.error = None
                      THEN Append(wire, Request(t, "Basic.Publish", tag))
                      ELSE wire
    /\ op' = [op EXCEPT ![t] = "publish"]
    /\ message_body' = body
    /\ answer' = [answer EXCEPT ![t] = NoFrame]
    /\ UNCHANGED <<_last_frame, _acks, _nacks, _publisher_confirms,
                   _pending_consumers, _consumers, _message,
                   _max_frame_size, err_frame, consumer_tag_future,
                   inbound, executed>>
    /\ UNCHANGED Waiters

\* publish taking any Basic.Ack or Basic.Nack for its own
confirmation_any(result_, tag, acks, nacks) ==
    IF result_ = STATE_BASIC_ACK_RECEIVED THEN "True"
    ELSE IF result_ = STATE_BASIC_NACK_RECEIVED THEN "False"
    ELSE "reopen"

\* client.py:959-967: what publish makes of the state its wait returned
confirmation(result_, tag, acks, nacks) ==
    IF result_ = STATE_BASIC_ACK_RECEIVED /\ tag \in acks THEN "True"
    ELSE IF result_ = STATE_BASIC_NACK_RECEIVED /\ tag \in nacks
    THEN "False"
    ELSE "reopen"

\* publish after its wait, client.py:955-967: it returns True or False and
\* removes its tag from the set, or goes on to wait for
\* STATE_CHANNEL_OPENOK_RECEIVED
published(t) ==
    /\ pc[t] = "publish"
    /\ w_stat[t] \in {"returned", "raised"}
    /\ Silent
    /\ _reconnect(t)
    /\ UNCHANGED <<_last_frame, _delivery_tag,
                   _pending_consumers, _consumers, _message,
                   _max_frame_size, op, delivery_tag, err_frame,
                   consumer_tag_future, message_body, wire, answer, inbound,
                   executed>>
    /\ IF w_stat[t] = "raised"
       THEN /\ resume(t)
            /\ outcome' = [outcome EXCEPT ![t] =
                            IF result[t] = "AMQPError" THEN None
                            ELSE result[t]]
            /\ UNCHANGED <<_acks, _nacks>>
       ELSE LET c == confirmation(result[t], delivery_tag[t], _acks, _nacks)
            IN  /\ w_stat' = [w_stat EXCEPT ![t] = "none"]
                /\ result' = [result EXCEPT ![t] = None]
                /\ UNCHANGED <<_waits, is_set, clock, wait_id, waits>>
                /\ _acks' = IF c = "True"
                            THEN _acks \ {delivery_tag[t]} ELSE _acks
                /\ _nacks' = IF c = "False"
                             THEN _nacks \ {delivery_tag[t]} ELSE _nacks
                /\ IF c = "reopen"
                   THEN /\ Step(t, Cur, "reopen", re[t],
                                _transport, _channel0, _channel_open)
                        /\ UNCHANGED outcome
                   ELSE /\ Ends(t, Cur,
                                _transport, _channel0, _channel_open)
                        /\ outcome' = [outcome EXCEPT ![t] = c]

\* the broker confirms the oldest k messages not yet confirmed: one, with
\* multiple=false, or all k with one frame that has multiple=true and the
\* delivery tag of the last
confirmed ==
    /\ UNCHANGED sequence
    /\ wire # <<>>
    /\ inbound = <<>>
    /\ inbound' = inbound
    /\ \E k \in 1..Len(wire), name \in {"Basic.Ack", "Basic.Nack"},
          multiple \in BOOLEAN :
        /\ \A i \in 1..k : wire[i].request = "Basic.Publish"
        /\ multiple \/ k = 1
        /\ LET value == Confirm(name, wire[k].tag, multiple)
           IN  /\ on_frame_received(1, value)
               /\ answer' = [t \in Tasks |->
                                IF \E i \in 1..k : wire[i].task = t
                                THEN value ELSE answer[t]]
        /\ wire' = SubSeq(wire, k + 1, Len(wire))

\* The client after confirm_select returned (client.py:651-669)
ConfirmInit ==
    /\ _consumers = {}
    /\ _on_message_return = None
    /\ _state = STATE_CONFIRM_SELECTOK_RECEIVED
    /\ _last_frame = Method("Confirm.SelectOk")
    /\ _publisher_confirms = TRUE
    /\ Connected({2})

\* two coroutines publishing with publisher confirms; the broker confirms
\* or closes the channel.  The channel the client opens after a
\* Channel.Close is not in confirm mode at the broker: nothing is published
\* once the channel was closed.
ConfirmNext ==
    \/ \E t \in {User, Second} :
        /\ \A u \in Tasks : answer[u].name # "Channel.Close"
        /\ publish(t, <<>>)
    \/ \E t \in Tasks : op_await(t)
    \/ \E t \in Tasks : op_wake(t)
    \/ op_callbacks
    \/ \E t \in {User, Second} : published(t)
    \/ \E t \in {User, Second} : reopened(t)
    \/ reopen_channel
    \/ channel_reopened
    \/ confirmed
    \/ answered

ConfirmSpec == ConfirmInit /\ [][ConfirmNext]_vars

\* The client after connect() returned, for each negotiated frame size
BodyInit ==
    /\ _consumers = {}
    /\ _on_message_return = None
    /\ _state = STATE_CHANNEL_OPENOK_RECEIVED
    /\ _last_frame = Method("Channel.OpenOk")
    /\ _publisher_confirms = FALSE
    /\ Connected(1..MaxFrameSize)

\* one coroutine publishing without publisher confirms
BodyNext == \E body \in Bodies : publish(User, body)

BodySpec == BodyInit /\ [][BodyNext]_vars

(***************************************************************************)
(* Consuming.                                                              *)
(***************************************************************************)
\* the most requests written and not answered
MaxInFlight == 2

\* two coroutines calling basic_consume, one of them once and the other
\* again and again; the broker answers with Basic.ConsumeOk, or once with
\* Channel.Close
ConsumeNext ==
    \/ \E t \in {User, Second} :
        /\ t = Second => op[t] = "None"
        /\ Len(wire) < MaxInFlight
        /\ call(t, "basic_consume")
    \/ \E t \in Tasks : op_await(t)
    \/ \E t \in Tasks : op_wake(t)
    \/ op_callbacks
    \/ \E t \in {User, Second} : reply(t)
    \/ \E t \in {User, Second} : future_done(t)
    \/ \E t \in {User, Second} : reopened(t)
    \/ reopen_channel
    \/ channel_reopened
    \/ /\ wire # <<>>
       /\ \E value \in Answers(Head(wire)) \ {Close(406)} :
            /\ value = Close(404) => answer[Reopen] = NoFrame
            /\ answered_with(value)

ConsumeSpec == OpInit /\ [][ConsumeNext]_vars

\* the largest number of messages handed to callbacks in one behaviour
MaxDeliver == 2

\* the bodies of the messages the broker delivers, in frames of one byte
Delivered == {<<0>>, <<0, 1>>}

\* the broker starts a message for a live consumer: Basic.Deliver reaches
\* _on_frame, the header and the body frames are on their way
deliver ==
    /\ UNCHANGED sequence
    /\ inbound = <<>>
    /\ Len(executed) < MaxDeliver
    /\ \E c \in _consumers, body \in Delivered :
        /\ on_frame_received(1, [Method("Basic.Deliver") EXCEPT
                                    !.consumer_tag = c[1]])
        /\ inbound' = <<[Method("ContentHeader") EXCEPT
                            !.body_size = Len(body)]>> \o
                       [i \in 1..Len(body) |->
                            [Method("ContentBody") EXCEPT
                                !.body = <<body[i]>>]]
    /\ UNCHANGED <<wire, answer>>

\* the next frame of the message reaches _on_frame
content ==
    /\ inbound # <<>>
    /\ UNCHANGED sequence
    /\ on_frame_received(1, Head(inbound))
    /\ inbound' = Tail(inbound)
    /\ UNCHANGED <<wire, answer>>

\* Client.basic_ack (client.py:404-423), basic_nack (545-567) and
\* basic_reject (631-649): the frame and the state each sets
Acknowledging ==
    [basic_ack    |-> [request |-> "Basic.Ack",
                       sent |-> STATE_BASIC_ACK_SENT],
     basic_nack   |-> [request |-> "Basic.Nack",
                       sent |-> STATE_BASIC_NACK_SENT],
     basic_reject |-> [request |-> "Basic.Reject",
                       sent |-> STATE_BASIC_REJECT_SENT]]

\* the operation ending after its write, the state left alone
acknowledge_unset(t, o) ==
    /\ UNCHANGED chan_more
    /\ ~Busy
    /\ pc[t] = "idle"
    /\ Ends(t, _write(Cur), _transport, _channel0, _channel_open)
    /\ outcome' = [outcome EXCEPT ![t] = "Return"]
    /\ op' = [op EXCEPT ![t] = o]
    /\ written' = <<Method(Acknowledging[o].request)>>
    /\ UNCHANGED <<chan_fields, delivery_tag, err_frame,
                   consumer_tag_future, message_body, wire, answer,
                   inbound, executed>>
    /\ UNCHANGED Waiters

\* basic_ack, basic_nack, basic_reject: _write, then _set_state, and the
\* method returns; the broker sends no reply
acknowledge(t, o) ==
    /\ UNCHANGED chan_more
    /\ ~Busy
    /\ pc[t] = "idle"
    /\ LET s == Then(_write(Cur), Acknowledging[o].sent, None)
       IN  /\ Ends(t, s, _transport, _channel0, _channel_open)
           /\ outcome' = [outcome EXCEPT ![t] =
                            IF s.error = None THEN "Return" ELSE s.error]
    /\ op' = [op EXCEPT ![t] = o]
    /\ written' = IF _transport
                  THEN <<Method(Acknowledging[o].request)>> ELSE <<>>
    /\ UNCHANGED <<chan_fields, delivery_tag, err_frame,
                   consumer_tag_future, message_body, wire, answer,
                   inbound, executed>>
    /\ UNCHANGED Waiters

\* The client after basic_consume returned the consumer tag ctag1 for the
\* callback of User
DeliverInit ==
    /\ _state = STATE_BASIC_CONSUMEOK_RECEIVED
    /\ _last_frame = ConsumeOk("ctag1")
    /\ _publisher_confirms = FALSE
    /\ _consumers = {<<"ctag1", User>>}
    /\ _on_message_return = None
    /\ Connected({2})

\* the broker delivers messages; the coroutine of the callback
\* acknowledges, at any time after it was given a message
DeliverNext ==
    \/ deliver
    \/ content
    \/ \E o \in DOMAIN Acknowledging :
        /\ executed # <<>>
        /\ acknowledge(Second, o)

DeliverSpec == DeliverInit /\ [][DeliverNext]_vars

(***************************************************************************)
(* Reconnecting.                                                           *)
(***************************************************************************)
\* Client.confirm_select up to its wait, client.py:659-667: the error it
\* raises before anything is written, or the frame and the state
confirm_select_sent(capabilities, s) ==
    IF "publisher_confirms" \notin capabilities
    THEN [s EXCEPT !.error = "NotSupportedError"]
    ELSE IF _publisher_confirms
    THEN [s EXCEPT !.error = "RuntimeError"]
    ELSE Then(_write(s), STATE_CONFIRM_SELECT_SENT, None)

\* the broker closes the connection: Channel0 calls _on_remote_close with
\* the error of the Connection.Close (client.py:1451-1453); what the client
\* wrote and the broker did not answer is lost with the connection, and so
\* is what the broker was sending
remote_close ==
    /\ _exception # "AMQPError"
    /\ _on_remote_close("AMQPError")
    /\ wire' = <<>>
    /\ inbound' = <<>>
    /\ Silent
    /\ UNCHANGED <<chan_fields, chan_locals, chan_more, answer, executed>>

\* _reconnect on its way through _connect (client.py:1273-1311) and into
\* _open_channel (client.py:1455-1463), which writes Channel.Open once
\* STATE_OPENING_CHANNEL is set
reconnecting(t) ==
    /\ \/ /\ connection_made(t)
          /\ UNCHANGED <<wire, outcome>>
          /\ Silent
       \/ /\ connected(t)
          /\ outcome' = [outcome EXCEPT ![t] =
                            IF _channel0 THEN @ ELSE "AttributeError"]
          /\ UNCHANGED wire
          /\ Silent
       \/ /\ opened(t)
          /\ LET s == Then(Then(Cur, STATE_OPENED, None),
                           STATE_OPENING_CHANNEL, None)
             IN  /\ outcome' = [outcome EXCEPT ![t] =
                        IF _open_channel(Then(Cur, STATE_OPENED, None)).error
                                = None
                        THEN @ ELSE "StateTransitionError"]
                 /\ IF s.error = None /\ _transport
                    THEN /\ wire' = Append(wire,
                                        Request(t, "Channel.Open", 0))
                         /\ written' = <<Method("Channel.Open")>>
                    ELSE /\ wire' = wire
                         /\ written' = <<>>
    /\ UNCHANGED <<chan_fields, op, delivery_tag, err_frame,
                   consumer_tag_future, message_body, chan_more, answer,
                   inbound, executed>>

\* _reconnect after the wait of _open_channel, client.py:1464 and
\* 1481-1485: confirm_select if publisher confirms were on, and then
\* Client._wait_on_state raises the exception it caught (client.py:1541)
reconnected(t) ==
    /\ pc[t] = "open"
    /\ t # Reopen
    /\ w_stat[t] \in {"returned", "raised"}
    /\ UNCHANGED <<_last_frame, _acks, _nacks, _delivery_tag,
                   _pending_consumers, _consumers, _message,
                   _max_frame_size, op, delivery_tag, err_frame,
                   consumer_tag_future, message_body, answer, inbound,
                   executed>>
    /\ IF w_stat[t] = "raised"
       THEN /\ resume(t)
            /\ _reconnect(t)
            /\ outcome' = [outcome EXCEPT ![t] =
                            IF result[t] = "AMQPError" THEN @
                            ELSE result[t]]
            /\ UNCHANGED wire
            /\ Silent
       ELSE /\ w_stat' = [w_stat EXCEPT ![t] = "none"]
            /\ result' = [result EXCEPT ![t] = None]
            /\ UNCHANGED <<_waits, is_set, clock, wait_id, waits>>
            /\ UNCHANGED chan_more
            /\ UNCHANGED _publisher_confirms
            /\ IF publisher_confirms[t]
               THEN LET s == confirm_select_sent({"publisher_confirms"}, Cur)
                    IN  /\ Goes(t, s, "confirm_select", _transport,
                                _channel0, TRUE)
                        /\ outcome' = [outcome EXCEPT ![t] =
                                        IF s.error = None THEN @
                                        ELSE s.error]
                        /\ IF _transport
                           THEN /\ wire' = Append(wire,
                                    Request(t, "Confirm.Select", 0))
                                /\ written' = <<Method("Confirm.Select")>>
                           ELSE /\ wire' = wire
                                /\ written' = <<>>
               ELSE /\ Ends(t, [Cur EXCEPT !.error = re[t]],
                            _transport, _channel0, TRUE)
                    /\ outcome' = [outcome EXCEPT ![t] = re[t]]
                    /\ UNCHANGED wire
                    /\ Silent

\* confirm_select after its wait, client.py:668-669; called by _reconnect
\* it is followed by the raise of Client._wait_on_state (client.py:1541)
confirm_selected(t) ==
    /\ pc[t] = "confirm_select"
    /\ w_stat[t] \in {"returned", "raised"}
    /\ Silent
    /\ UNCHANGED <<_last_frame, _acks, _nacks, _delivery_tag,
                   _pending_consumers, _consumers, _message,
                   _max_frame_size, op, delivery_tag, err_frame,
                   consumer_tag_future, message_body, wire, answer,
                   inbound, executed>>
    /\ IF w_stat[t] = "raised"
       THEN /\ resume(t)
            /\ _reconnect(t)
            /\ outcome' = [outcome EXCEPT ![t] =
                            IF result[t] = "AMQPError" THEN @
                            ELSE result[t]]
       ELSE /\ w_stat' = [w_stat EXCEPT ![t] = "none"]
            /\ result' = [result EXCEPT ![t] = None]
            /\ UNCHANGED <<_waits, is_set, clock, wait_id, waits>>
            /\ UNCHANGED chan_more
            /\ _publisher_confirms' = TRUE
            /\ Ends(t, [Cur EXCEPT !.error = re[t]],
                    _transport, _channel0, _channel_open)
            /\ outcome' = [outcome EXCEPT ![t] =
                            IF re[t] = None THEN "Return" ELSE re[t]]

\* one caller with publisher confirms on, declaring queues and starting
\* consumers; the broker answers, or closes the connection; the client
\* connects again
ReconnectNext ==
    \/ \E o \in {"declare", "basic_consume"} :
        /\ Len(wire) < MaxInFlight
        /\ Len(_pending_consumers) < MaxInFlight
        /\ call(User, o)
    \/ op_await(User)
    \/ op_wake(User)
    \/ op_callbacks
    \/ reply(User)
    \/ reconnecting(User)
    \/ reconnected(User)
    \/ confirm_selected(User)
    \/ /\ wire # <<>>
       /\ \E value \in Answers(Head(wire)) \ {Close(404), Close(406)} :
            answered_with(value)
    \/ remote_close

ReconnectSpec == ConfirmInit /\ [][ReconnectNext]_vars

(***************************************************************************)
(* Messages: basic_get, deliveries, returned messages, and the frames of   *)
(* the broker that _on_frame has no branch for.                            *)
(***************************************************************************)
\* Client.register_message_return_callback, client.py:1160-1169
register_message_return_callback(t) ==
    /\ ~Busy
    /\ _on_message_return = None
    /\ _on_message_return' = t
    /\ Silent
    /\ UNCHANGED <<_transactional, response, publisher_confirms,
                   consumer_tag, protocol_vars,
                   sequence>>
    /\ UNCHANGED <<sm_vars, client_vars, chan_fields, chan_locals, wire,
                   answer, inbound, executed>>

\* Client.basic_get, client.py:522-543: a new future is put under the key
\* 'GetOk' of _consumers, replacing the one that was there; Basic.Get is
\* written, the state set, and the future awaited
basic_get(t) ==
    /\ ~Busy
    /\ pc[t] = "idle"
    /\ Len(wire) < MaxInFlight
    /\ response' = [response EXCEPT ![t] = Future]
    /\ _consumers' = {c \in _consumers : c[1] # "GetOk"} \cup {<<"GetOk", t>>}
    /\ LET s == Then(_write(Cur), STATE_BASIC_GET_SENT, None)
       IN  /\ Goes(t, s, "basic_get", _transport, _channel0, _channel_open)
           /\ outcome' = [outcome EXCEPT ![t] = s.error]
    /\ op' = [op EXCEPT ![t] = "basic_get"]
    /\ answer' = [answer EXCEPT ![t] = NoFrame]
    /\ IF _transport
       THEN /\ wire' = Append(wire, Request(t, "Basic.Get", 0))
            /\ written' = <<Method("Basic.Get")>>
       ELSE /\ wire' = wire
            /\ written' = <<>>
    /\ UNCHANGED <<_transactional, _on_message_return,
                   publisher_confirms, consumer_tag, protocol_vars,
                   sequence>>
    /\ UNCHANGED <<_last_frame, _acks, _nacks, _delivery_tag,
                   _publisher_confirms, _pending_consumers, _message,
                   _max_frame_size, delivery_tag, err_frame,
                   consumer_tag_future, message_body, inbound, executed>>
    /\ UNCHANGED Waiters

\* `return await response`, client.py:543: basic_get returns the result of
\* its future, None or the message
basic_get_returns(t) ==
    /\ ~Busy
    /\ pc[t] = "basic_get"
    /\ response[t].done
    /\ Ends(t, Cur, _transport, _channel0, _channel_open)
    /\ outcome' = [outcome EXCEPT ![t] =
                    IF response[t].result = NoFrame THEN "Return"
                    ELSE "Message"]
    /\ Silent
    /\ UNCHANGED chan_more
    /\ UNCHANGED <<chan_fields, op, delivery_tag, err_frame,
                   consumer_tag_future, message_body, wire, answer,
                   inbound, executed>>
    /\ UNCHANGED Waiters

\* the bodies of the messages the broker sends, and the sizes of the
\* frames it sends them in
Sent == {<<>>, <<0>>, <<0, 1>>}
FrameSizes == {1, 2}

\* the content frames of a message: the header and the body frames
Content(body, size) ==
    <<[Method("ContentHeader") EXCEPT !.body_size = Len(body)]>> \o
    ContentBody(body, size)

\* the broker starts a message: its method frame reaches _on_frame, the
\* content frames are on their way
starts(first) ==
    /\ inbound = <<>>
    /\ UNCHANGED sequence
    /\ on_frame_received(1, first)
    /\ \E body \in Sent, size \in FrameSizes : inbound' = Content(body, size)

\* a message for a live consumer
delivers ==
    /\ Len(executed) < MaxDeliver
    /\ \E c \in {b \in _consumers : b[1] # "GetOk"} :
        starts([Method("Basic.Deliver") EXCEPT !.consumer_tag = c[1]])
    /\ UNCHANGED <<wire, answer>>

\* a published message comes back
returns ==
    /\ _delivery_tag > 0
    /\ Len(executed) < MaxDeliver
    /\ starts(Method("Basic.Return"))
    /\ UNCHANGED <<wire, answer>>

\* the broker answers the oldest request, a Basic.Get, with a message
get_ok ==
    /\ wire # <<>>
    /\ Head(wire).request = "Basic.Get"
    /\ starts(Method("Basic.GetOk"))
    /\ answer' = [answer EXCEPT ![Head(wire).task] = Method("Basic.GetOk")]
    /\ wire' = Tail(wire)

\* the frames the broker sends on its own that _on_frame has no branch for
Unasked == {"Channel.Flow", "Basic.Cancel"}

unasked(name) ==
    /\ inbound = <<>>
    /\ UNCHANGED sequence
    /\ on_frame_received(1, Method(name))
    /\ UNCHANGED <<wire, answer, inbound>>

\* a consumer is live; a coroutine registers the return callback, calls
\* basic_get, publishes one message; the broker answers, delivers, returns
MessageNext ==
    \/ register_message_return_callback(User)
    \/ basic_get(User)
    \/ basic_get_returns(User)
    \/ _delivery_tag = 0 /\ publish(User, <<0>>)
    \/ /\ wire # <<>>
       /\ \E value \in Answers(Head(wire)) : answered_with(value)
    \/ get_ok
    \/ delivers
    \/ returns
    \/ content
    \/ \E name \in Unasked : unasked(name)

MessageSpec == DeliverInit /\ [][MessageNext]_vars

\* two coroutines call basic_get; the broker answers each Basic.Get with
\* Basic.GetEmpty or with a message
GetNext ==
    \/ basic_get(User) \/ basic_get(Second)
    \/ basic_get_returns(User) \/ basic_get_returns(Second)
    \/ /\ wire # <<>>
       /\ \E value \in Answers(Head(wire)) : answered_with(value)
    \/ get_ok
    \/ content

GetSpec == OpInit /\ [][GetNext]_vars

\* a consumer is live; a coroutine calls exchange and queue operations one
\* after another while the broker delivers messages to the consumer
IdleNext ==
    \/ \E o \in {"exchange_declare", "queue_bind"} :
        /\ Len(wire) < MaxInFlight
        /\ call(User, o)
    \/ op_await(User)
    \/ op_wake(User)
    \/ op_callbacks
    \/ reply(User)
    \/ /\ wire # <<>>
       /\ \E value \in Answers(Head(wire)) \ {Close(404), Close(406)} :
            answered_with(value)
    \/ delivers
    \/ content

IdleSpec == DeliverInit /\ [][IdleNext]_vars

(***************************************************************************)
(* basic_cancel, confirm_select and the transaction operations, and the    *)
(* checks the operations make before they write.                           *)
(***************************************************************************)
\* the operations that write one request and wait for its one reply:
\* basic_cancel client.py:447-449, confirm_select 666-668, tx_select
\* 1179-1182, tx_commit 1194-1196, tx_rollback 1210-1212
Plain ==
    [basic_cancel   |-> [request |-> "Basic.Cancel",
                         sent |-> STATE_BASIC_CANCEL_SENT],
     confirm_select |-> [request |-> "Confirm.Select",
                         sent |-> STATE_CONFIRM_SELECT_SENT],
     tx_select      |-> [request |-> "Tx.Select",
                         sent |-> STATE_TX_SELECT_SENT],
     tx_commit      |-> [request |-> "Tx.Commit",
                         sent |-> STATE_TX_COMMIT_SENT],
     tx_rollback    |-> [request |-> "Tx.Rollback",
                         sent |-> STATE_TX_ROLLBACK_SENT]]

\* the exception an operation raises before it writes, or None: an
\* argument of the wrong type (client.py:445-446, 867-906), confirm_select
\* without the server's capability or with confirms on (client.py:660-664),
\* tx_commit and tx_rollback without tx_select (client.py:1192-1193,
\* 1208-1209)
Refused(o, valid, capabilities) ==
    IF ~valid THEN "TypeError"
    ELSE IF o = "confirm_select"
    THEN confirm_select_sent(capabilities, Cur).error
    ELSE IF o \in {"tx_commit", "tx_rollback"} /\ ~_transactional
    THEN "NoTransactionError"
    ELSE None

\* an operation whose check raises after publish's `self._delivery_tag += 1`
raises_counted(t, o, error) ==
    /\ ~Busy
    /\ pc[t] = "idle"
    /\ Ends(t, [Cur EXCEPT !.error = error],
            _transport, _channel0, _channel_open)
    /\ outcome' = [outcome EXCEPT ![t] = error]
    /\ op' = [op EXCEPT ![t] = o]
    /\ _delivery_tag' = _delivery_tag + 1
    /\ Silent
    /\ UNCHANGED chan_more
    /\ UNCHANGED <<_last_frame, _acks, _nacks, _publisher_confirms,
                   _pending_consumers, _consumers, _message,
                   _max_frame_size, delivery_tag, err_frame,
                   consumer_tag_future, message_body, wire, answer,
                   inbound, executed>>
    /\ UNCHANGED Waiters

\* the operation o raises error from its checks, the first statements of
\* the method
raises(t, o, error) ==
    /\ ~Busy
    /\ pc[t] = "idle"
    /\ Ends(t, [Cur EXCEPT !.error = error],
            _transport, _channel0, _channel_open)
    /\ outcome' = [outcome EXCEPT ![t] = error]
    /\ op' = [op EXCEPT ![t] = o]
    /\ Silent
    /\ UNCHANGED chan_more
    /\ UNCHANGED <<chan_fields, delivery_tag, err_frame,
                   consumer_tag_future, message_body, wire, answer,
                   inbound, executed>>
    /\ UNCHANGED Waiters

\* _consumers with the consumer tag deleted when Basic.Cancel is written
Deleted_sent(phase, o, tag) ==
    IF o = "basic_cancel" THEN {c \in _consumers : c[1] # tag}
    ELSE _consumers

\* `del self._consumers[consumer_tag]`, client.py:450, the statement of
\* basic_cancel after its wait: _consumers after the phase of operation o
Deleted(phase, o, tag) ==
    IF o = "basic_cancel" /\ phase = "received"
    THEN {c \in _consumers : c[1] # tag}
    ELSE _consumers

\* an operation of Plain after its checks, up to its wait: _write, then
\* _set_state; tx_select sets _transactional (client.py:1181)
sends(t, o, tag) ==
    /\ ~Busy
    /\ pc[t] = "idle"
    /\ Len(wire) < MaxInFlight
    /\ LET s == Then(_write(Cur), Plain[o].sent, None)
       IN  /\ Goes(t, s, o, _transport, _channel0, _channel_open)
           /\ outcome' = [outcome EXCEPT ![t] = s.error]
           /\ _transactional' =
                (_transactional \/ (o = "tx_select" /\ s.error = None))
    /\ op' = [op EXCEPT ![t] = o]
    /\ answer' = [answer EXCEPT ![t] = NoFrame]
    /\ consumer_tag' = IF o = "basic_cancel"
                       THEN [consumer_tag EXCEPT ![t] = tag]
                       ELSE consumer_tag
    /\ _consumers' = Deleted("sent", o, tag)
    /\ IF _transport
       THEN /\ wire' = Append(wire, Request(t, Plain[o].request, 0))
            /\ written' = <<Method(Plain[o].request)>>
       ELSE /\ wire' = wire
            /\ written' = <<>>
    /\ UNCHANGED <<_on_message_return, response, publisher_confirms,
                   protocol_vars, sequence>>
    /\ UNCHANGED <<_last_frame, _acks, _nacks, _delivery_tag,
                   _publisher_confirms, _pending_consumers, _message,
                   _max_frame_size, delivery_tag, err_frame,
                   consumer_tag_future, message_body, inbound, executed>>
    /\ UNCHANGED Waiters

\* an operation of Plain called with a consumer tag, with arguments that
\* are valid or not, on a server with the capabilities given
request(t, o, tag, valid, capabilities) ==
    IF Refused(o, valid, capabilities) # None
    THEN raises(t, o, Refused(o, valid, capabilities))
    ELSE sends(t, o, tag)

\* Client.publish, client.py:867-967, with arguments that are valid or not
publish_validated(t, valid, body) ==
    IF valid THEN publish(t, body) ELSE raises(t, "publish", "TypeError")

\* basic_cancel, tx_select, tx_commit and tx_rollback after their wait:
\* basic_cancel deletes the consumer tag, KeyError if it is not a key
settled(t) ==
    /\ pc[t] \in DOMAIN Plain \ {"confirm_select"}
    /\ w_stat[t] \in {"returned", "raised"}
    /\ Silent
    /\ UNCHANGED <<_last_frame, _acks, _nacks, _delivery_tag,
                   _pending_consumers, _message, _max_frame_size, op,
                   delivery_tag, err_frame, consumer_tag_future,
                   message_body, wire, answer, inbound, executed>>
    /\ IF w_stat[t] = "raised"
       THEN /\ resume(t)
            /\ _reconnect(t)
            /\ _consumers' = _consumers
            /\ outcome' = [outcome EXCEPT ![t] =
                            IF result[t] = "AMQPError" THEN @
                            ELSE result[t]]
       ELSE LET error == IF /\ pc[t] = "basic_cancel"
                            /\ \A c \in _consumers : c[1] # consumer_tag[t]
                         THEN "KeyError" ELSE None
            IN  /\ w_stat' = [w_stat EXCEPT ![t] = "none"]
                /\ result' = [result EXCEPT ![t] = None]
                /\ UNCHANGED <<_waits, is_set, clock, wait_id, waits>>
                /\ UNCHANGED chan_more
                /\ _publisher_confirms' = _publisher_confirms
                /\ _consumers' = Deleted("received", pc[t], consumer_tag[t])
                /\ Ends(t, [Cur EXCEPT !.error = error],
                        _transport, _channel0, _channel_open)
                /\ outcome' = [outcome EXCEPT ![t] =
                                IF error = None THEN "Return" ELSE error]

\* The client after two basic_consume calls returned ctag1 and ctag2
SetupInit ==
    /\ _state = STATE_BASIC_CONSUMEOK_RECEIVED
    /\ _last_frame = ConsumeOk("ctag2")
    /\ _publisher_confirms = FALSE
    /\ _consumers = {<<"ctag1", User>>, <<"ctag2", User>>}
    /\ _on_message_return = None
    /\ Connected({2})

\* the capabilities of the server: with and without publisher confirms
Capabilities == {{}, {"publisher_confirms"}}

\* one coroutine cancels consumers, turns publisher confirms on, uses the
\* transaction operations and publishes, with valid and invalid arguments;
\* the broker answers and confirms
SetupNext ==
    \/ \E o \in DOMAIN Plain, tag \in ConsumerTags, valid \in BOOLEAN,
          capabilities \in Capabilities :
        /\ o # "basic_cancel" => (valid /\ tag = "ctag1")
        /\ o # "confirm_select" => capabilities = {"publisher_confirms"}
        /\ request(User, o, tag, valid, capabilities)
    \/ \E valid \in BOOLEAN : publish_validated(User, valid, <<0>>)
    \/ op_await(User)
    \/ op_wake(User)
    \/ op_callbacks
    \/ settled(User)
    \/ confirm_selected(User)
    \/ published(User)
    \/ /\ wire # <<>>
       /\ \E value \in Answers(Head(wire)) \ {Close(404), Close(406)} :
            answered_with(value)
    \/ confirmed

SetupSpec == SetupInit /\ [][SetupNext]_vars

\* one coroutine cancels its consumers while the broker delivers to them
CancelNext ==
    \/ \E tag \in ConsumerTags, valid \in BOOLEAN :
        request(User, "basic_cancel", tag, valid, {})
    \/ op_await(User)
    \/ op_wake(User)
    \/ op_callbacks
    \/ settled(User)
    \/ /\ wire # <<>>
       /\ \E value \in Answers(Head(wire)) \ {Close(404), Close(406)} :
            answered_with(value)
    \/ delivers
    \/ content

CancelSpec == SetupInit /\ [][CancelNext]_vars

(***************************************************************************)
(* Publishing across a reconnect.                                          *)
(***************************************************************************)
\* one coroutine publishing with publisher confirms on; the broker
\* confirms, or closes the connection; the client connects again, selects
\* confirms again and the coroutine goes on publishing
RepublishNext ==
    \/ publish(User, <<0>>)
    \/ op_await(User)
    \/ op_wake(User)
    \/ op_callbacks
    \/ published(User)
    \/ reconnecting(User)
    \/ reconnected(User)
    \/ confirm_selected(User)
    \/ /\ wire # <<>>
       /\ \E value \in Answers(Head(wire)) \ {Close(404), Close(406)} :
            answered_with(value)
    \/ confirmed
    \/ remote_close

RepublishSpec == ConfirmInit /\ [][RepublishNext]_vars

(***************************************************************************)
(* The transport protocol: AMQP.data_received, protocol.py:35-47.          *)
(* A frame on the wire is its payload size, the payload and the frame end  *)
(* octet (the frame type and the channel are left out).                    *)
(***************************************************************************)
FrameEnd == 206
MaxChunk == 3
MaxBuffer == 5
MaxDispatched == 3

\* the payload sizes and the payload octets of the frames the broker sends
Sizes == {0, 1}
Octets == {0, 1}

\* pamqp's frame.unmarshal (protocol.py:39): the number of octets and the
\* value of the first frame of b, or UnmarshalingException when b does not
\* hold a whole frame
unmarshal(b) ==
    IF /\ b # <<>>
       /\ Len(b) >= b[1] + 2
       /\ b[b[1] + 2] = FrameEnd
    THEN [error |-> None, count |-> b[1] + 2,
          value |-> SubSeq(b, 2, b[1] + 1)]
    ELSE [error |-> "UnmarshalingException", count |-> 0, value |-> <<>>]

\* AMQP.data_received, protocol.py:35-47: the while loop ends with a break
\* in the except branch and with a break in the else branch, after one
\* frame
data_received(data) ==
    LET b == buffer \o data
        u == unmarshal(b)
    IN  IF u.error # None
        THEN /\ buffer' = b
             /\ dispatched' = dispatched
        ELSE /\ buffer' = SubSeq(b, u.count + 1, Len(b))
             /\ dispatched' = Append(dispatched, u.value)

\* b is the beginning of a stream of frames
RECURSIVE WellFormed(_)
WellFormed(b) ==
    IF b = <<>> THEN TRUE
    ELSE /\ b[1] \in Sizes
         /\ \A i \in 2..(b[1] + 1) : i <= Len(b) => b[i] \in Octets
         /\ IF Len(b) >= b[1] + 2
            THEN /\ b[b[1] + 2] = FrameEnd
                 /\ WellFormed(SubSeq(b, b[1] + 3, Len(b)))
            ELSE TRUE

\* the chunks of octets the transport calls data_received with
Chunks ==
    UNION {[1..n -> Sizes \cup Octets \cup {FrameEnd}] : n \in 1..MaxChunk}

\* the transport hands the stream of the broker's frames to data_received
\* in chunks of any size
ProtocolNext ==
    \E data \in Chunks :
        /\ WellFormed(buffer \o data)
        /\ Len(buffer) + Len(data) <= MaxBuffer
        /\ Len(dispatched) < MaxDispatched
        /\ data_received(data)
        /\ UNCHANGED <<sm_vars, client_vars, chan_fields, chan_locals,
                       chan_wire>>
        /\ UNCHANGED <<_transactional, _on_message_return, response,
                       publisher_confirms, consumer_tag, sequence>>

ProtocolSpec == SMInit /\ [][ProtocolNext]_vars

(***************************************************************************)
(* The operations that return what their reply frame carries.              *)
(***************************************************************************)
\* a consumer is live; one coroutine calls queue_declare and queue_purge;
\* the broker answers with the positive reply, sends heartbeats on channel
\* 0 and delivers messages to the consumer
ReplyNext ==
    \/ \E o \in ReadsReply : Len(wire) < MaxInFlight /\ call(User, o)
    \/ op_await(User)
    \/ op_wake(User)
    \/ op_callbacks
    \/ reply(User)
    \/ /\ wire # <<>>
       /\ \E value \in Answers(Head(wire)) \ {Close(404), Close(406)} :
            answered_with(value)
    \/ heartbeat
    \/ delivers
    \/ content

ReplySpec == DeliverInit /\ [][ReplyNext]_vars

(***************************************************************************)
(* Publisher confirms as the broker numbers them.                          *)
(***************************************************************************)
\* the broker confirms the oldest message not yet confirmed, with the
\* sequence number it has for it: the number of messages published on the
\* channel since Confirm.Select
confirmed_in_sequence ==
    /\ wire # <<>>
    /\ inbound = <<>>
    /\ inbound' = inbound
    /\ Head(wire).request = "Basic.Publish"
    /\ \E name \in {"Basic.Ack", "Basic.Nack"} :
        /\ on_frame_received(1, Confirm(name, sequence + 1, FALSE))
        /\ answer' = [answer EXCEPT ![Head(wire).task] =
                        Confirm(name, sequence + 1, FALSE)]
    /\ sequence' = sequence + 1
    /\ wire' = Tail(wire)

\* one coroutine publishes, with confirm_select called before the first
\* message or between two messages; the broker answers Confirm.Select and
\* confirms the messages published after it
SequenceNext ==
    \/ \E body \in {<<>>, <<0>>} : publish(User, body)
    \/ request(User, "confirm_select", "ctag1", TRUE, {"publisher_confirms"})
    \/ op_await(User)
    \/ op_wake(User)
    \/ op_callbacks
    \/ confirm_selected(User)
    \/ published(User)
    \/ /\ wire # <<>>
       /\ Head(wire).request = "Confirm.Select"
       /\ \E value \in Answers(Head(wire)) : answered_with(value)
    \/ confirmed_in_sequence

SequenceSpec == SetupInit /\ [][SequenceNext]_vars

(***************************************************************************)
(* Concurrent publishes.                                                   *)
(***************************************************************************)
\* two coroutines publish messages of one and of two body frames with
\* publisher confirms on, each while the other waits for its confirmation;
\* the broker confirms
ConcurrentNext ==
    \/ \E t \in {User, Second}, body \in {<<0>>, <<0, 1, 1>>} :
        publish(t, body)
    \/ \E t \in Tasks : op_await(t)
    \/ \E t \in Tasks : op_wake(t)
    \/ op_callbacks
    \/ \E t \in {User, Second} : published(t)
    \/ confirmed

ConcurrentSpec == ConfirmInit /\ [][ConcurrentNext]_vars

(***************************************************************************)
(* Closing.                                                                *)
(***************************************************************************)
\* Client.close, client.py:387-402, up to its first suspension: it returns
\* at once on a closed client, writes Channel.Close and waits for
\* Channel.CloseOk while the channel is open, and goes on to _close
\* otherwise
close_channel ==
    /\ close
    /\ LET early == is_closed \/ ~_channel0 \/ ~_transport
           writes == ~early /\ _state # STATE_EXCEPTION /\ _channel_open
           s == IF early
                THEN IF _state # STATE_CLOSED
                     THEN Then(Cur, STATE_CLOSED, None) ELSE Cur
                ELSE IF writes
                THEN Then(_write(Cur), STATE_CHANNEL_CLOSE_SENT, None)
                ELSE Then(Cur, STATE_CLOSING, None)
       IN  /\ wire' = IF writes
                      THEN Append(wire, Request(User, "Channel.Close", 0))
                      ELSE wire
           /\ written' = IF writes THEN <<Method("Channel.Close")>>
                         ELSE <<>>
           /\ outcome' = [outcome EXCEPT ![User] =
                            IF s.error # None THEN s.error
                            ELSE IF early THEN "Return" ELSE None]
    /\ op' = [op EXCEPT ![User] = "close"]
    /\ answer' = [answer EXCEPT ![User] = NoFrame]
    /\ UNCHANGED <<chan_fields, chan_more, delivery_tag, err_frame,
                   consumer_tag_future, message_body, inbound, executed>>

\* Client.close after its wait for Channel.CloseOk, client.py:402, and
\* Client._close to its suspension in Channel0.close, client.py:1265-1266
channel_closed ==
    /\ pc[User] = "close"
    /\ resume(User)
    /\ _reconnect(User)
    /\ Silent
    /\ outcome' = [outcome EXCEPT ![User] =
                    IF w_stat[User] = "raised"
                    THEN IF result[User] = "AMQPError" THEN @
                         ELSE result[User]
                    ELSE Then(Cur, STATE_CLOSING, None).error]
    /\ UNCHANGED <<_last_frame, _acks, _nacks, _delivery_tag,
                   _pending_consumers, _consumers, _message,
                   _max_frame_size, op, delivery_tag, err_frame,
                   consumer_tag_future, message_body, wire, answer,
                   inbound, executed>>

\* Client._close after Channel0.close, client.py:1267-1271: the transport
\* is closed, the state set to STATE_CLOSED, and _reset (client.py:1487-
\* 1499) clears the flags, _publisher_confirms among them
connection_closed ==
    /\ closed
    /\ Silent
    /\ LET s == _reset(Then(_write(Cur), STATE_CLOSED, None))
       IN  /\ _publisher_confirms' =
                IF s.error # None THEN _publisher_confirms ELSE FALSE
           /\ outcome' = [outcome EXCEPT ![User] =
                            IF s.error # None THEN s.error ELSE "Return"]
    /\ UNCHANGED <<_last_frame, _acks, _nacks, _delivery_tag,
                   _pending_consumers, _consumers, _message,
                   _max_frame_size, op, delivery_tag, err_frame,
                   consumer_tag_future, message_body, wire, answer,
                   inbound, executed, chan_more>>

\* the broker answers Channel.Close with Channel.CloseOk
close_ok ==
    /\ wire # <<>>
    /\ Head(wire).request = "Channel.Close"
    /\ answered_with(Method("Channel.CloseOk"))

\* the client after connect() and some operations returned: with two
\* consumers, or with publisher confirms on
CloseInit == SetupInit \/ ConfirmInit

\* one coroutine declares, binds and publishes, then closes the client;
\* the broker answers, confirms, and answers Channel.Close
CloseNext ==
    \/ \E o \in {"declare", "queue_bind"} :
        /\ Len(wire) < MaxInFlight
        /\ call(User, o)
    \/ publish(User, <<0>>)
    \/ op_await(User)
    \/ op_wake(User)
    \/ op_callbacks
    \/ reply(User)
    \/ published(User)
    \/ /\ wire # <<>>
       /\ Head(wire).request \notin {"Channel.Close", "Basic.Publish"}
       /\ \E value \in Answers(Head(wire)) :
            /\ value.name # "Channel.Close"
            /\ answered_with(value)
    \/ confirmed
    \/ close_channel
    \/ channel_closed
    \/ connection_closed
    \/ close_ok

CloseSpec == CloseInit /\ [][CloseNext]_vars

(***************************************************************************)
(* Basic.Get on a channel the broker closes.                               *)
(***************************************************************************)
\* the broker answers Basic.Get with Basic.GetEmpty, or with Channel.Close
\* when the queue does not exist; and Channel.Open with Channel.OpenOk
get_answered ==
    /\ wire # <<>>
    /\ \E value \in Answers(Head(wire)) \cup
                    IF Head(wire).request = "Basic.Get"
                    THEN {Close(404)} ELSE {} :
        answered_with(value)

\* two coroutines call basic_get while the channel is open; the broker
\* answers or closes the channel, which the client opens again
GetClosedNext ==
    \/ \E t \in {User, Second} :
        /\ _channel_open
        /\ basic_get(t)
    \/ \E t \in {User, Second} : basic_get_returns(t)
    \/ get_answered
    \/ reopen_channel
    \/ channel_reopened
    \/ op_await(Reopen)
    \/ op_wake(Reopen)
    \/ op_callbacks

\* the event loop runs what is ready and the broker answers what it was
\* sent; only the calls of basic_get are left to the application
GetClosedSpec ==
    /\ OpInit
    /\ [][GetClosedNext]_vars
    /\ \A t \in {User, Second} : WF_vars(basic_get_returns(t))
    /\ WF_vars(get_answered)
    /\ WF_vars(reopen_channel)
    /\ WF_vars(channel_reopened)
    /\ WF_vars(op_await(Reopen))
    /\ WF_vars(op_wake(Reopen))
    /\ WF_vars(op_callbacks)

(***************************************************************************)
(* Claims about the state manager.                                         *)
(***************************************************************************)
IndexOf(s, x) == CHOOSE i \in 1..Len(s) : s[i] = x
EnteredAwaited(t) == {s \in Awaited(t) : InSeq(entered[t], s)}

\* C2: _set_state(next) without an exception, with next different from the
\* current state and not in transitions[current], raises
\* StateTransitionError and leaves the state and the stored exception as
\* they were.
C2_InvalidTransitionRejected ==
    [][\A value \in _STATE_MAP :
        (/\ SetState(value, None)
         /\ value # STATE_EXCEPTION
         /\ value # _state
         /\ value \notin _STATE_TRANSITIONS[_state])
        => (raised' /\ _state' = _state /\ _exception' = _exception)]_vars

\* a rejected call in STATE_EXCEPTION: the stored exception is still there
C2_Witness ==
    raised /\ _state = STATE_EXCEPTION /\ _exception = "AMQPError"

\* C3: _set_state with an exception, or with next = STATE_EXCEPTION, ends in
\* STATE_EXCEPTION from every state, without raising, and stores the
\* exception it was given.
C3_ExceptionForcesState ==
    [][\A value \in _STATE_MAP, exc \in {None} \cup Errors :
        (SetState(value, exc) /\ (exc # None \/ value = STATE_EXCEPTION))
        => (/\ _state' = STATE_EXCEPTION
            /\ _exception' = exc
            /\ ~raised')]_vars

C3_Witness ==
    _state = STATE_EXCEPTION /\ _exception = "RuntimeError" /\ ~raised

\* C5: a waiter registered on S before S is entered observes the entry:
\* once the scheduled wake-ups have run its event is set, whatever other
\* waiters registered or finished meanwhile.
C5_RegisteredWaiterObserves ==
    \A t \in Tasks :
        (/\ w_stat[t] = "waiting"
         /\ EnteredAwaited(t) # {}
         /\ ready = <<>>)
        => first_set(t, waits[t], is_set) # 0

\* C6: a waiter is not woken by an entry of S that came before it
\* registered: until _set_state completes in one of its awaited states
\* after the registration, none of its events is set or scheduled.
C6_NoRetroactiveWake ==
    \A t \in Tasks :
        (w_stat[t] = "waiting" /\ EnteredAwaited(t) = {})
        => \A i \in 1..Len(waits[t]) :
                Event(t, i) \notin is_set \cup Pending(ready)

\* the task registered while the state was one it awaits
C6_Witness ==
    \E t \in Tasks :
        /\ w_stat[t] = "waiting"
        /\ _state \in Awaited(t)
        /\ EnteredAwaited(t) = {}

C8_PendingWaitersRaise ==
    \A t \in Tasks :
        (w_stat[t] = "waiting" /\ InSeq(entered[t], STATE_EXCEPTION))
        => _exception # None

\* C9: when a wait has ended, by return or by raise, _waits holds no
\* registration of that waiter.
C9_NoRegistrationLeft ==
    \A t \in Tasks :
        w_stat[t] \in {"returned", "raised"}
        => \A e \in _waits : e[3][1] # t

(***************************************************************************)
(* Claims about the client.                                                *)
(***************************************************************************)
Legal(a, b) ==
    b = a \/ b \in _STATE_TRANSITIONS[a] \/ b = STATE_EXCEPTION

C4_RemoteCloseClosed ==
    [][\A exc \in {"AMQPError"} :
        _on_remote_close(exc)
        => (_state' = STATE_CLOSED /\ _exception' = exc)]_vars

Settled ==
    /\ ready = <<>>
    /\ wire = <<>>
    /\ ~Busy
    /\ pc[Reopen] = "idle"
    /\ _exception = None
    /\ \A t \in Tasks :
            w_stat[t] = "waiting" => first_set(t, waits[t], is_set) = 0

\* the request of t was answered by Channel.Close and the re-open that
\* followed is through
ClosedAndReopened(t) ==
    /\ answer[t].name = "Channel.Close"
    /\ _channel_open
    /\ Settled

\* C11: each of the nine exchange and queue operations, answered by
\* Channel.Close, ends by raising the class bound to the reply code once
\* the channel is open again; it does not stay suspended.
C11_ClosedOperationRaises ==
    \A t \in Tasks :
        (op[t] \in Management /\ ClosedAndReopened(t))
        => (/\ pc[t] = "idle"
            /\ outcome[t] = CLASS_MAPPING[answer[t].reply_code])

\* the operations that wait on STATE_CHANNEL_CLOSE_RECEIVED
AwaitsClose ==
    {o \in DOMAIN Operations :
        InSeq(Awaiting[o], STATE_CHANNEL_CLOSE_RECEIVED)}

\* C12: an operation that waits on STATE_CHANNEL_CLOSE_RECEIVED and was
\* answered by Channel.Close has, when it ends, raised the class bound to
\* the reply code of that frame, whatever frames came in before it resumed.
C12_RaisesReplyCodeOfClose ==
    \A t \in Tasks :
        (/\ op[t] \in AwaitsClose
         /\ answer[t].name = "Channel.Close"
         /\ pc[t] = "idle")
        => outcome[t] = CLASS_MAPPING[answer[t].reply_code]

\* the state that has to follow a in the re-open of the channel
Follows(a, b) ==
    \/ b = a
    \/ CASE a = STATE_CHANNEL_CLOSE_RECEIVED ->
                b = STATE_CHANNEL_CLOSEOK_SENT
         [] a = STATE_CHANNEL_CLOSEOK_SENT -> b = STATE_OPENING_CHANNEL
         [] a = STATE_OPENING_CHANNEL -> b = STATE_CHANNEL_OPEN_SENT
         [] a = STATE_CHANNEL_OPEN_SENT ->
                b = STATE_CHANNEL_OPENOK_RECEIVED
         [] OTHER -> TRUE

Publishers == {User, Second}

\* the broker has not closed the channel
NoClose == \A u \in Tasks : answer[u].name # "Channel.Close"

\* the events of a waiting publish are still in _waits
Intact(t) == w_stat[t] = "waiting" => \E e \in _waits : e[3][1] = t

\* what publish returns for the frame that confirmed it
Verdict(value) == IF value.name = "Basic.Ack" THEN "True" ELSE "False"

\* C14: with several publishes in flight, a publish whose own confirm has
\* not arrived stays in its wait for Basic.Ack, Basic.Nack or
\* Channel.Close whatever confirms of other tags wake it, and a publish
\* that ended after the confirm of its own tag returned True for
\* Basic.Ack and False for Basic.Nack.
C14_CorrelatedByTag ==
    \A t \in Publishers :
        (op[t] = "publish" /\ NoClose)
        => /\ (answer[t] = NoFrame /\ outcome[t] = None)
                => pc[t] = "publish"
           /\ (/\ pc[t] = "idle"
               /\ answer[t].name \in {"Basic.Ack", "Basic.Nack"}
               /\ answer[t].delivery_tag = delivery_tag[t])
                => outcome[t] = Verdict(answer[t])

C16_ClosedPublishReturnsFalse ==
    \A t \in Publishers :
        (op[t] = "publish" /\ answer[t].name = "Channel.Close")
        => /\ pc[t] = "idle"
                => (/\ outcome[t] = "False"
                    /\ answer[Reopen].name = "Channel.OpenOk")
           /\ (ClosedAndReopened(t) /\ Intact(t)) => pc[t] = "idle"

\* C17: when a Basic.Ack or Basic.Nack with multiple=true and delivery tag
\* T has been handled, every publish that was waiting for its confirm with
\* a delivery tag of at most T is confirmed: its tag is in _acks, or in
\* _nacks, where its next pass finds it and returns True, or False.
C17_MultipleConfirmsAll ==
    [][\A t \in Publishers :
        (/\ pc[t] = "publish"
         /\ w_stat[t] = "waiting"
         /\ answer[t] = NoFrame
         /\ answer'[t].name \in {"Basic.Ack", "Basic.Nack"}
         /\ answer'[t].multiple
         /\ delivery_tag[t] <= answer'[t].delivery_tag
         /\ _state' # STATE_EXCEPTION)
        => delivery_tag[t] \in (IF answer'[t].name = "Basic.Ack"
                                THEN _acks' ELSE _nacks')]_vars

\* the least number of frames of at most F bytes that hold B bytes
Ceil(B, F) == CHOOSE n \in 0..B : n * F >= B /\ (n = 0 \/ (n - 1) * F < B)

\* C18: publish writes Basic.Publish, the ContentHeader and then
\* Ceil(B, F) ContentBody frames for a body of B bytes and a frame size F:
\* each has at most F bytes, all but the last have F, joined they are the
\* body, and there is none when the body is empty.
C18_BodyFrames ==
    (op[User] = "publish" /\ outcome[User] = "Return")
    => LET B == Len(message_body)
           F == _max_frame_size
       IN  /\ Len(written) = 2 + Ceil(B, F)
           /\ written[1] = Method("Basic.Publish")
           /\ written[2] = Method("ContentHeader")
           /\ \A i \in 3..Len(written) :
                /\ written[i].name = "ContentBody"
                /\ Len(written[i].body) <= F
                /\ written[i].body # <<>>
                /\ i < Len(written) => Len(written[i].body) = F
           /\ Joined(written) = message_body
           /\ B = 0 => Len(written) = 2

\* a body of four bytes in frames of three: the last frame has one byte
C18_Witness ==
    /\ outcome[User] = "Return"
    /\ message_body = <<0, 1, 1, 0>>
    /\ _max_frame_size = 3
    /\ Len(written) = 4
    /\ written[4].body = <<0>>

(***************************************************************************)
(* Claims about consuming.                                                 *)
(***************************************************************************)
\* C19: basic_ack, basic_nack and basic_reject called in
\* STATE_MESSAGE_ASSEMBLED write their one frame, set STATE_BASIC_ACK_SENT,
\* STATE_BASIC_NACK_SENT or STATE_BASIC_REJECT_SENT, and return: no waiter
\* is registered and no reply of the broker is expected.
C19_AcknowledgeWithoutWaiting ==
    [][\A t \in Tasks, o \in DOMAIN Acknowledging :
        (acknowledge(t, o) /\ _state = STATE_MESSAGE_ASSEMBLED)
        => (/\ written' = <<Method(Acknowledging[o].request)>>
            /\ _state' = Acknowledging[o].sent
            /\ mid' = <<>>
            /\ pc'[t] = "idle"
            /\ outcome'[t] = "Return"
            /\ w_stat'[t] = "none"
            /\ _waits' = _waits
            /\ wire' = wire)]_vars

\* basic_reject returned after the second message was assembled
C19_Witness ==
    /\ Len(executed) = MaxDeliver
    /\ _message = NoFrame
    /\ _state = STATE_BASIC_REJECT_SENT
    /\ written = <<Method("Basic.Reject")>>
    /\ op[Second] = "basic_reject"
    /\ outcome[Second] = "Return"

\* C20: a Basic.ConsumeOk takes the entry of the oldest basic_consume call
\* whose Basic.Consume is not answered yet, resolves that call's future
\* with its consumer tag and puts the tag with that call's callback into
\* _consumers; and a basic_consume that returned a consumer tag returned
\* the tag of the Basic.ConsumeOk that answered it.
C20_ConsumeOkInOrder ==
    /\ [][(/\ wire # <<>>
           /\ answer'[Head(wire).task].name = "Basic.ConsumeOk"
           /\ answer'[Head(wire).task] # answer[Head(wire).task]
           /\ _state' # STATE_EXCEPTION)
          => LET t == Head(wire).task
                 tag == answer'[t].consumer_tag
             IN  /\ _pending_consumers # <<>>
                 /\ Head(_pending_consumers) = [future |-> t, callback |-> t]
                 /\ _pending_consumers' = Tail(_pending_consumers)
                 /\ consumer_tag_future'[t] = tag
                 /\ <<tag, t>> \in _consumers']_vars
    /\ [](\A t \in Tasks :
            (/\ op[t] = "basic_consume"
             /\ pc[t] = "idle"
             /\ outcome[t] \in ConsumerTags)
            => answer[t] = ConsumeOk(outcome[t]))

\* the entries of _pending_consumers that the basic_consume of t appended
Entries(t) ==
    {i \in 1..Len(_pending_consumers) :
        _pending_consumers[i] = [future |-> t, callback |-> t]}

\* C21: between two frame handlers _pending_consumers holds one entry for
\* each basic_consume that wrote Basic.Consume and has no answer yet, and
\* none for a basic_consume that has ended, by returning its consumer tag,
\* by raising the class of a Channel.Close or by raising out of its wait.
C21_PendingConsumersLive ==
    \A t \in Tasks :
        /\ (/\ pc[t] = "basic_consume"
            /\ answer[t] = NoFrame
            /\ \E i \in 1..Len(wire) : wire[i].task = t)
            => Cardinality(Entries(t)) = 1
        /\ (op[t] = "basic_consume" /\ pc[t] = "idle") => Entries(t) = {}

(***************************************************************************)
(* Claims about reconnecting.                                              *)
(***************************************************************************)
\* C30: when the AMQPError raised into the wait of an operation reaches
\* the caller, the client has connected again and opened a channel, and
\* publisher confirms, which were on before the error, are on again: the
\* last frame handled was the Confirm.SelectOk that followed the
\* Channel.OpenOk, and the error the caller sees is the AMQPError.
C30_ReconnectedBeforeRaise ==
    [][\A t \in Tasks :
        (/\ re[t] = "AMQPError"
         /\ pc[t] \in {"open", "confirm_select"}
         /\ pc'[t] = "idle"
         /\ outcome'[t] = "AMQPError")
        => (/\ _transport'
            /\ _channel0'
            /\ _channel_open'
            /\ _publisher_confirms'
            /\ _state' = STATE_CONFIRM_SELECTOK_RECEIVED
            /\ _last_frame' = Method("Confirm.SelectOk"))]_vars

(***************************************************************************)
(* Claims about messages.                                                  *)
(***************************************************************************)
\* a state whose legal successors contain the whole of _IDLE_STATE
PostOpIdle(st) == _IDLE_STATE \subseteq _STATE_TRANSITIONS[st]

\* the step hands the message m to the callback of its consumer, to the
\* future of basic_get, or to the return callback if one is registered
Given(m) ==
    CASE m.method.name = "Basic.Deliver" ->
            \E c \in _consumers :
                /\ c[1] = m.method.consumer_tag
                /\ executed' = Append(executed, [callback |-> c[2],
                                                 message |-> m])
      [] m.method.name = "Basic.GetOk" ->
            /\ executed' = executed
            /\ \E t \in Getting :
                response' = [response EXCEPT
                                ![t] = [done |-> TRUE, result |-> m]]
      [] OTHER ->
            IF _on_message_return = None THEN executed' = executed
            ELSE executed' = Append(executed,
                                    [callback |-> _on_message_return,
                                     message |-> m])

\* the next frame is a content frame of the message being assembled, and
\* the message has someone to be handed to: a Basic.GetOk message has the
\* pending future of a basic_get
Assembling(name) ==
    /\ inbound # <<>>
    /\ Head(inbound).name = name
    /\ _message # NoFrame
    /\ _message.method.name = "Basic.GetOk"
        => \E t \in Getting : ~response[t].done

\* C23: basic_get returns None only when the broker answered its Basic.Get
\* with Basic.GetEmpty, and a message only when it answered with Basic.GetOk
\* and the message is complete; once Basic.GetEmpty or the last frame of the
\* message has been handled the future of the call has its result, so the
\* call returns.  (For the calls of a coroutine that is the only one to
\* call basic_get.)
C23_GetReturns ==
    /\ [][\A t \in Tasks :
            (/\ basic_get_returns(t)
             /\ \A u \in Tasks \ {t} : op[u] # "basic_get")
            => IF outcome'[t] = "Return"
               THEN answer[t].name = "Basic.GetEmpty"
               ELSE /\ answer[t].name = "Basic.GetOk"
                    /\ response[t].result.method.name = "Basic.GetOk"
                    /\ complete(response[t].result)]_vars
    /\ [](\A t \in Tasks :
            (/\ pc[t] = "basic_get"
             /\ \A u \in Tasks \ {t} : op[u] # "basic_get"
             /\ answer[t].name \in {"Basic.GetEmpty", "Basic.GetOk"}
             /\ inbound = <<>>)
            => response[t].done)

\* C24: a basic_get called while another is not answered yet does not
\* take the other's result: once the broker has answered the Basic.Get of
\* a call with Basic.GetEmpty, or with Basic.GetOk and a message with a
\* body, all of whose frames have been handled, that call's future has the
\* result, and a call returns None or a message as its own Basic.Get was
\* answered.
C24_GetKeepsItsResult ==
    /\ [](\A t \in Tasks :
            (/\ pc[t] = "basic_get"
             /\ inbound = <<>>
             /\ \/ answer[t].name = "Basic.GetEmpty"
                \/ /\ answer[t].name = "Basic.GetOk"
                   /\ _state = STATE_MESSAGE_ASSEMBLED)
            => response[t].done)
    /\ [][\A t \in Tasks :
            basic_get_returns(t)
            => IF outcome'[t] = "Return"
               THEN answer[t].name = "Basic.GetEmpty"
               ELSE answer[t].name = "Basic.GetOk"]_vars

C26_EmptyBodyComplete ==
    [][(/\ content
        /\ Assembling("ContentHeader")
        /\ Head(inbound).body_size = 0
        /\ _state = Received[_message.method.name])
       => /\ _state' = STATE_MESSAGE_ASSEMBLED
          /\ Given(Stored(Head(inbound)))]_vars

\* C27: Channel.Flow and Basic.Cancel, received in a state in which a new
\* request may begin, do not set STATE_EXCEPTION: Channel.Flow sets
\* STATE_CHANNEL_FLOW_RECEIVED, Channel.FlowOk is written and the state is
\* STATE_CHANNEL_FLOWOK_SENT; Basic.Cancel sets STATE_BASIC_CANCEL_RECEIVED.
C27_FlowAndCancelHandled ==
    [][\A name \in Unasked :
        (unasked(name) /\ PostOpIdle(_state))
        => /\ _state' # STATE_EXCEPTION
           /\ name = "Channel.Flow"
                => /\ mid' = <<STATE_CHANNEL_FLOW_RECEIVED>>
                   /\ written' = <<Method("Channel.FlowOk")>>
                   /\ _state' = STATE_CHANNEL_FLOWOK_SENT
           /\ name = "Basic.Cancel"
                => _state' = STATE_BASIC_CANCEL_RECEIVED]_vars

\* C29: when an operation returns to its caller without an exception, the
\* state is one whose legal successors contain the whole of _IDLE_STATE,
\* whatever frames the broker sent between the reply and the resumption of
\* the operation.
C29_IdleOnReturn ==
    [][\A t \in Tasks :
        (/\ pc[t] # "idle"
         /\ pc'[t] = "idle"
         /\ outcome'[t] = "Return")
        => PostOpIdle(_state')]_vars

(***************************************************************************)
(* Claims about cancelling and about the checks before a write             *)
(***************************************************************************)
\* the consumer tags of the live consumers
Live == {c[1] : c \in _consumers}

Rejections ==
    {"TypeError", "NotSupportedError", "RuntimeError", "NoTransactionError"}

\* C28: an operation that raises from its checks (an argument of the
\* wrong type, confirm_select with confirms on or without the server's
\* capability, tx_commit or tx_rollback without tx_select) writes no
\* frame and leaves the state, the delivery tag counter, the flags, the
\* consumers and the acks and nacks as they were.
C28_RejectedChangesNothing ==
    [][\A t \in Tasks :
        (/\ pc[t] = "idle"
         /\ pc'[t] = "idle"
         /\ <<op[t], outcome[t]>> # <<op'[t], outcome'[t]>>
         /\ outcome'[t] \in Rejections)
        => /\ written' = <<>>
           /\ wire' = wire
           /\ _state' = _state
           /\ _exception' = _exception
           /\ _delivery_tag' = _delivery_tag
           /\ _publisher_confirms' = _publisher_confirms
           /\ _transactional' = _transactional
           /\ _channel_open' = _channel_open
           /\ _transport' = _transport
           /\ _consumers' = _consumers
           /\ _pending_consumers' = _pending_consumers
           /\ _acks' = _acks
           /\ _nacks' = _nacks]_vars

\* confirm_select raised RuntimeError with confirms on, after a publish
C28_Witness ==
    /\ op[User] = "confirm_select"
    /\ pc[User] = "idle"
    /\ outcome[User] = "RuntimeError"
    /\ _publisher_confirms
    /\ _delivery_tag > 0
    /\ written = <<>>

(***************************************************************************)
(* Claims about the delivery tag counter                                   *)
(***************************************************************************)
\* the step in which Client._reconnect calls _reset
Resets(t) == w_stat[t] = "raised" /\ result[t] = "AMQPError" /\ pc'[t] # pc[t]

\* C31: _delivery_tag changes only by one, in a publish that takes the new
\* value as its delivery tag, or to 0 in the _reset of a reconnect; the
\* _reset of a reconnect leaves it 0, so that the next publish has the
\* delivery tag 1.
C31_DeliveryTagResetOnReconnect ==
    /\ [][_delivery_tag' # _delivery_tag
            => \/ \E t \in Tasks : Resets(t) /\ _delivery_tag' = 0
               \/ /\ _delivery_tag' = _delivery_tag + 1
                  /\ \E t \in Tasks : /\ op'[t] = "publish"
                                      /\ pc[t] = "idle"
                                      /\ delivery_tag'[t] = _delivery_tag']_vars
    /\ [][(\E t \in Tasks : Resets(t)) => _delivery_tag' = 0]_vars

(***************************************************************************)
(* Claims about the transport protocol                                     *)
(***************************************************************************)
\* C32: after a call of data_received no whole frame is left in the
\* buffer: every whole frame received has been dispatched, and what stays
\* buffered is the beginning of a frame that is not complete yet.
C32_NoWholeFrameBuffered ==
    unmarshal(buffer).error # None

(***************************************************************************)
(* Claims about the replies and the publisher confirms                     *)
(***************************************************************************)
\* C33: when queue_declare or queue_purge ends after its wait returned the
\* state of its reply, it returns, and it returns what the frame that
\* answered its request carries: _last_frame is that frame.
C33_ReturnsItsReply ==
    [][\A t \in Tasks :
        (/\ pc[t] \in ReadsReply
         /\ pc'[t] = "idle"
         /\ w_stat[t] = "returned"
         /\ result[t] = Received[Operations[pc[t]].ok])
        => /\ outcome'[t] = "Return"
           /\ _last_frame = answer[t]]_vars

\* C34: the delivery tag a publish waits for is the sequence number the
\* broker has for its message, the number of messages published on the
\* channel since Confirm.Select, so that the broker's confirmation of the
\* message ends the wait of the publish.
C34_TagIsSequenceNumber ==
    \A i \in 1..Len(wire) :
        wire[i].request = "Basic.Publish"
        => wire[i].tag = sequence +
             Cardinality({j \in 1..i : wire[j].request = "Basic.Publish"})

\* C35: a step that writes Basic.Publish is one publish from the
\* increment of _delivery_tag to its last write: the counter goes up by
\* one, the publish has the new value as its delivery tag, which is
\* greater than every delivery tag taken before, and what the step writes
\* is Basic.Publish, the ContentHeader and the body frames of that message
\* and nothing else; the publishes the broker has not confirmed yet are on
\* the wire in the order of their delivery tags.
C35_PublishIsAtomic ==
    /\ [][(written' # <<>> /\ written'[1].name = "Basic.Publish")
            => /\ _delivery_tag' = _delivery_tag + 1
               /\ \E t \in Tasks :
                    /\ pc[t] = "idle"
                    /\ op'[t] = "publish"
                    /\ delivery_tag'[t] = _delivery_tag'
                    /\ \A u \in Tasks : delivery_tag[u] < delivery_tag'[t]
                    /\ \A u \in Tasks \ {t} :
                        delivery_tag'[u] = delivery_tag[u]
                    /\ outcome'[t] = None
                       => /\ Len(written') =
                                2 + Ceil(Len(message_body'), _max_frame_size)
                          /\ written'[2].name = "ContentHeader"
                          /\ \A i \in 3..Len(written') :
                                written'[i].name = "ContentBody"
                          /\ Joined(written') = message_body'
                          /\ wire' = Append(wire,
                                Request(t, "Basic.Publish", _delivery_tag'))
               /\ \A i \in 1..Len(written') :
                    written'[i].name \in
                        {"Basic.Publish", "ContentHeader", "ContentBody"}]_vars
    /\ [](\A i, j \in 1..Len(wire) :
            (/\ i < j
             /\ wire[i].request = "Basic.Publish"
             /\ wire[j].request = "Basic.Publish")
            => wire[i].tag < wire[j].tag)

\* the second coroutine has published a message of two body frames with
\* delivery tag 2 while the first waits for the confirmation of tag 1
C35_Witness ==
    /\ pc[User] = "publish"
    /\ pc[Second] = "publish"
    /\ delivery_tag[User] = 1
    /\ delivery_tag[Second] = 2
    /\ Len(wire) = 2
    /\ wire[1].task = User
    /\ wire[2].task = Second
    /\ message_body = <<0, 1, 1>>
    /\ Len(written) = 4
    /\ written[1].name = "Basic.Publish"
    /\ written[4].body = <<1>>

(***************************************************************************)
(* Claims about the states in which requests and deliveries are accepted   *)
(***************************************************************************)
\* C36: in a state whose legal successors contain _IDLE_STATE, basic_ack,
\* basic_nack and basic_reject begin like every other operation: their
\* _set_state does not raise StateTransitionError.
C36_IdleAdmitsEveryOperation ==
    [][\A t \in Tasks :
        (/\ pc[t] = "idle"
         /\ PostOpIdle(_state)
         /\ op'[t] \in DOMAIN Acknowledging
         /\ written' = <<Method(Acknowledging[op'[t]].request)>>)
        => outcome'[t] # "StateTransitionError"]_vars

\* C37: with the channel open and no exception stored, a Basic.Deliver for
\* a live consumer is accepted whatever request is waiting for its reply:
\* the step that handles it ends in STATE_BASIC_DELIVER_RECEIVED.
C37_DeliverAcceptedWhileWaiting ==
    [][(/\ _channel_open
        /\ _state # STATE_EXCEPTION
        /\ _message = NoFrame
        /\ inbound = <<>>
        /\ inbound' # <<>>
        /\ _last_frame'.name = "Basic.Deliver"
        /\ \E c \in _consumers : c[1] = _last_frame'.consumer_tag)
        => _state' = STATE_BASIC_DELIVER_RECEIVED]_vars

(***************************************************************************)
(* Claims about closing, rejected calls and Basic.Get                      *)
(***************************************************************************)
\* a post-operation idle state of an open connection with an open channel
Open == PostOpIdle(_state) /\ _channel_open /\ _transport /\ _channel0

\* the step is the call of close() by the idle coroutine
Closes ==
    /\ pc[User] = "idle"
    /\ op'[User] = "close"
    /\ op[User] # "close" \/ outcome'[User] # outcome[User]

Refuses(t) ==
    /\ pc[t] = "idle"
    /\ outcome[t] # "StateTransitionError"
    /\ outcome'[t] = "StateTransitionError"

\* C39: an operation that raises StateTransitionError where it sets its
\* Sent state has written no frame, and has left the delivery tag counter
\* and the pending consumers as they were.
C39_RefusedWritesNothing ==
    [][\A t \in Tasks :
        Refuses(t) => /\ written' = <<>>
                      /\ _delivery_tag' = _delivery_tag
                      /\ _pending_consumers' = _pending_consumers]_vars

\* C40: a basic_get whose Basic.Get the broker answered with Channel.Close
\* ends, once the channel is open again: it does not stay suspended.
C40_GetEndsAfterClose ==
    \A t \in {User, Second} :
        (pc[t] = "basic_get" /\ answer[t].name = "Channel.Close")
            ~> (pc[t] = "idle")
====
